---- MODULE Spec2Model ----
(***************************************************************************)
(* Dhara-Rakshak: the quantitative risk-assessment pipeline.               *)
(*                                                                         *)
(*   GeotechnicalEngine  (src/js/geotechnical-engine.js)                   *)
(*   RiskClassifier      (src/js/risk-classifier.js)                       *)
(*   MitigationEngine    (src/js/mitigation-engine.js)                     *)
(*                                                                         *)
(* The JavaScript works on IEEE doubles.  Here a real quantity q is the    *)
(* integer q * SC (five decimals), an angle is in thousandths of a degree, *)
(* and a sine or cosine is scaled by TS.  Where the code can produce NaN   *)
(* or an infinity (a division by zero inside the Bishop loop, the mean of  *)
(* no samples) the value is a record [k, v] with k in                      *)
(* {"num", "nan", "inf"}.                                                  *)
(***************************************************************************)
EXTENDS Integers, Sequences, FiniteSets, TLC

VARIABLES
    op,          \* the engine function whose call the state records
    args,        \* the arguments of that call
    result,      \* what the call returned
    prev,        \* the call before it: [args, result]
    b_pc,        \* bishopSimplified: "idle", "loop", "exit", "done"
    b_slices,    \* bishopSimplified: the slices argument
    b_maxIter,   \* bishopSimplified: the maxIter argument
    b_iter,      \* bishopSimplified: the loop variable iter
    b_fos_prev,  \* bishopSimplified: fos_prev
    b_converged, \* bishopSimplified: converged
    b_iterations, \* bishopSimplified: iterations
    b_hist,      \* bishopSimplified: the iterates so far, the guess first
    mc_pc,       \* monteCarloSimulation: "idle", "loop", "done"
    mc_params,   \* monteCarloSimulation: the params argument
    mc_iterations, \* monteCarloSimulation: the iterations argument
    mc_i,        \* monteCarloSimulation: the loop variable i
    mc_fosResults, \* monteCarloSimulation: fosResults
    mc_failureCount, \* monteCarloSimulation: failureCount
    app_pc,      \* runAnalysis: "idle", "fetching", "timer", "done"
    app_fetch,   \* per live-data API: "none", "fetch", "json", "value", "null"
    app_timer,   \* per live-data API: safeFetch's abort timer is armed
    app_liveData, \* state.liveData
    app_liveDataFetched, \* state.liveDataFetched
    app_runs,    \* runs of the pipeline since the last request
    ga_pc,       \* greenAmptInfiltration: "idle", "loop", "done"
    ga_params,   \* greenAmptInfiltration: the params argument
    ga_step,     \* greenAmptInfiltration: the loop variable step
    ga_F,        \* greenAmptInfiltration: F, in mm
    ga_saturationTime, \* greenAmptInfiltration: saturationTime
    ga_history,  \* greenAmptInfiltration: infiltrationHistory
    ga_capacity  \* greenAmptInfiltration: f_capacity of every step so far

vars == <<op, args, result, prev, b_pc, b_slices, b_maxIter, b_iter,
          b_fos_prev, b_converged, b_iterations, b_hist, mc_pc, mc_params,
          mc_iterations, mc_i, mc_fosResults, mc_failureCount, app_pc,
          app_fetch, app_timer, app_liveData, app_liveDataFetched, app_runs,
          ga_pc, ga_params, ga_step, ga_F, ga_saturationTime, ga_history,
          ga_capacity>>

callVars == <<op, args, result, prev>>
bishopVars == <<b_pc, b_slices, b_maxIter, b_iter, b_fos_prev, b_converged,
                b_iterations, b_hist>>
mcVars == <<mc_pc, mc_params, mc_iterations, mc_i, mc_fosResults,
            mc_failureCount>>
appVars == <<app_pc, app_fetch, app_timer, app_liveData, app_liveDataFetched,
             app_runs>>
gaVars == <<ga_pc, ga_params, ga_step, ga_F, ga_saturationTime, ga_history,
            ga_capacity>>
loopVars == <<bishopVars, mcVars, appVars, gaVars>>

-----------------------------------------------------------------------------
(* Fixed-point arithmetic                                                  *)

SC == 100000
TS == 1000000

Null == [k |-> "null"]

Abs(x) == IF x < 0 THEN -x ELSE x
Min(a, b) == IF a <= b THEN a ELSE b
Max(a, b) == IF a >= b THEN a ELSE b
Sign(x) == IF x < 0 THEN -1 ELSE 1

\* <<q, r>> with a * b = q * c + r and 0 <= r < c, for a, b >= 0 and c > 0,
\* computed digit by digit of b in base k without forming a * b (TLC's
\* integers are 32 bits wide); 2 * c * k must stay below 2^31.
RECURSIVE QuotRem(_, _, _, _)
QuotRem(a, b, c, k) ==
    IF b = 0 THEN <<0, 0>>
    ELSE LET h == QuotRem(a, b \div k, c, k)
             d == b % k
             r3 == k * h[2] + (a % c) * d
         IN  <<k * h[1] + (a \div c) * d + (r3 \div c), r3 % c>>

\* a * b / c, truncated toward zero (c # 0).
MulDiv(a, b, c) ==
    LET s == Sign(a) * Sign(b) * Sign(c)
        x == Abs(a)
        y == Abs(b)
        z == Abs(c)
    IN  IF x < 46000 /\ y < 46000
        THEN s * ((x * y) \div z)
        ELSE s * QuotRem(Max(x, y), Min(x, y), z,
                         IF z <= 1000000 THEN 1000 ELSE 16)[1]

\* The product and the quotient of two SC-scaled quantities.
Mul(a, b) == MulDiv(a, b, SC)
Div(a, b) == MulDiv(a, SC, b)

\* Number.prototype.toFixed(n) followed by parseFloat: the nearest multiple
\* of 10^-n, a tie going away from zero.
Pow10(n) == IF n = 0 THEN 1 ELSE IF n = 1 THEN 10 ELSE IF n = 2 THEN 100
            ELSE IF n = 3 THEN 1000 ELSE IF n = 4 THEN 10000 ELSE 100000
ToFixed(x, n) ==
    LET unit == SC \div Pow10(n)
    IN  Sign(x) * (((Abs(x) + unit \div 2) \div unit) * unit)

-----------------------------------------------------------------------------
(* IEEE values that may be NaN or infinite                                 *)

Num(v) == [k |-> "num", v |-> v]
NaN == [k |-> "nan", v |-> 0]
Inf(s) == [k |-> "inf", v |-> s]

IsNum(f) == f.k = "num"
IsNaN(f) == f.k = "nan"
IsFinite(f) == f.k = "num"

FAdd(f, g) ==
    IF IsNaN(f) \/ IsNaN(g) THEN NaN
    ELSE IF f.k = "inf" /\ g.k = "inf" THEN (IF f.v = g.v THEN f ELSE NaN)
    ELSE IF f.k = "inf" THEN f
    ELSE IF g.k = "inf" THEN g
    ELSE Num(f.v + g.v)

FNeg(f) == IF IsNaN(f) THEN NaN ELSE [k |-> f.k, v |-> -f.v]

FSub(f, g) == FAdd(f, FNeg(g))

\* f / g of two SC-scaled values: x/0 is an infinity, 0/0 and inf/inf are NaN.
FDiv(f, g) ==
    IF IsNaN(f) \/ IsNaN(g) THEN NaN
    ELSE IF f.k = "inf"
         THEN (IF g.k = "inf" THEN NaN
               ELSE Inf(IF g.v < 0 THEN -f.v ELSE f.v))
    ELSE IF g.k = "inf" THEN Num(0)
    ELSE IF g.v = 0 THEN (IF f.v = 0 THEN NaN ELSE Inf(Sign(f.v)))
    ELSE Num(Div(f.v, g.v))

\* f * g of two SC-scaled values: 0 * inf is NaN.
FMul(f, g) ==
    IF IsNaN(f) \/ IsNaN(g) THEN NaN
    ELSE IF f.k = "inf" \/ g.k = "inf"
         THEN (IF f.v = 0 \/ g.v = 0 THEN NaN ELSE Inf(Sign(f.v) * Sign(g.v)))
    ELSE Num(Mul(f.v, g.v))

\* Math.sqrt of an SC-scaled value by Newton's iteration.
RECURSIVE SqrtIter(_, _, _)
SqrtIter(v, s, n) ==
    IF n = 0 THEN s
    ELSE LET t == (s + Div(v, s)) \div 2
         IN  IF t = s THEN s ELSE SqrtIter(v, t, n - 1)

Sqrt(v) == IF v = 0 THEN 0 ELSE SqrtIter(v, Max(v, SC), 40)

FSqrt(f) ==
    IF IsNaN(f) THEN NaN
    ELSE IF f.k = "inf" THEN (IF f.v > 0 THEN f ELSE NaN)
    ELSE IF f.v < 0 THEN NaN
    ELSE Num(Sqrt(f.v))

\* Math.abs(f) < t, false for NaN and for an infinity.
FAbsLt(f, t) == IsNum(f) /\ Abs(f.v) < t

FToFixed(f, n) == IF IsNum(f) THEN Num(ToFixed(f.v, n)) ELSE f

-----------------------------------------------------------------------------
(* Binary64 sums, exactly.  A non-negative double x below 16384 whose unit *)
(* in the last place is at least 2^-84 is the natural number x * 2^84,     *)
(* written as eight limbs of 14 bits, the least significant first.  Every  *)
(* operation rounds its exact result to 53 significant bits, a tie going   *)
(* to the even neighbour, as the + and / of the JavaScript do.             *)

LIMB == 16384

B64Zero == [j \in 1..8 |-> 0]

\* a + b + carry from limb j upwards.
RECURSIVE B64AddFrom(_, _, _, _)
B64AddFrom(a, b, j, carry) ==
    IF j > 8 THEN <<>>
    ELSE CHOOSE r \in {<<t % LIMB>> \o B64AddFrom(a, b, j + 1, t \div LIMB) :
                          t \in {a[j] + b[j] + carry}} : TRUE

\* a * k from limb j upwards, k < 2^16.
RECURSIVE B64MulFrom(_, _, _, _)
B64MulFrom(a, k, j, carry) ==
    IF j > 8 THEN <<>>
    ELSE CHOOSE r \in {<<t % LIMB>> \o B64MulFrom(a, k, j + 1, t \div LIMB) :
                          t \in {a[j] * k + carry}} : TRUE

\* a / k from limb j downwards, k < 2^16: the limbs of the quotient, the
\* most significant first, and then the remainder.
RECURSIVE B64DivFrom(_, _, _, _)
B64DivFrom(a, k, j, rem) ==
    IF j = 0 THEN <<rem>>
    ELSE CHOOSE r \in {<<t \div k>> \o B64DivFrom(a, k, j - 1, t % k) :
                          t \in {rem * LIMB + a[j]}} : TRUE

B64Bit(q, p) == (q[p \div 14 + 1] \div 2^(p % 14)) % 2

B64BitLen(q) ==
    LET h == CHOOSE j \in 1..8 : q[j] # 0 /\ \A i \in (j + 1)..8 : q[i] = 0
    IN  14 * (h - 1) + (CHOOSE n \in 1..14 : 2^(n - 1) <= q[h] /\ q[h] < 2^n)

\* The double nearest to q + (a fraction of the last limb's unit that is
\* zero iff sticky is false).
B64Round(q, sticky) ==
    IF q = B64Zero THEN q
    ELSE LET d == B64BitLen(q) - 53
             a == d \div 14
             unit == [j \in 1..8 |-> IF j = a + 1 THEN 2^(d % 14) ELSE 0]
             trunc == [j \in 1..8 |->
                          IF j <= a THEN 0
                          ELSE IF j = a + 1 THEN q[j] - (q[j] % 2^(d % 14))
                          ELSE q[j]]
             up == /\ B64Bit(q, d - 1) = 1
                   /\ \/ sticky
                      \/ B64Bit(q, d) = 1
                      \/ \E p \in 0..(d - 2) : B64Bit(q, p) = 1
         IN  IF d <= 0 THEN q
             ELSE IF up THEN B64AddFrom(trunc, unit, 1, 0)
             ELSE trunc

\* The quotient of B64DivFrom, rounded.
B64Quotient(d) ==
    CHOOSE r \in {B64Round(q, d[9] # 0) : q \in {[j \in 1..8 |-> d[9 - j]]}} :
        TRUE

\* The double of the literal m / 10000.
B64FromDec4(m) ==
    CHOOSE r \in {B64Quotient(d) :
                    d \in {B64DivFrom([j \in 1..8 |->
                                          IF j = 7 THEN m % LIMB
                                          ELSE IF j = 8 THEN m \div LIMB
                                          ELSE 0], 10000, 8, 0)}} : TRUE

B64Add(x, y) ==
    CHOOSE r \in {B64Round(s, FALSE) :
                    s \in {B64AddFrom(a, b, 1, 0) : a \in {x}, b \in {y}}} : TRUE

B64Div(x, k) ==
    CHOOSE r \in {B64Quotient(d) :
                    d \in {B64DivFrom(a, k, 8, 0) : a \in {x}}} : TRUE

\* fosResults.reduce((a, b) => a + b, 0) over the first n results, each an
\* SC-scaled value of four decimals.
RECURSIVE B64Sum(_, _)
B64Sum(f, n) ==
    IF n = 0 THEN B64Zero
    ELSE B64Add(B64Sum(f, n - 1), B64FromDec4(f[n] \div 10))

\* x.toFixed(4) in units of 0.0001: the nearest, a tie going up.
B64ToFixed4(x) ==
    CHOOSE r \in {X[7] + X[8] * LIMB + (IF X[6] >= LIMB \div 2 THEN 1 ELSE 0) :
                    X \in {B64MulFrom(a, 10000, 1, 0) : a \in {x}}} : TRUE

-----------------------------------------------------------------------------
(* Math.sin, Math.cos, Math.tan on angles in thousandths of a degree       *)

SinTab ==
  << 0, 17452, 34899, 52336, 69756, 87156, 104528, 121869,
     139173, 156434, 173648, 190809, 207912, 224951, 241922, 258819,
     275637, 292372, 309017, 325568, 342020, 358368, 374607, 390731,
     406737, 422618, 438371, 453990, 469472, 484810, 500000, 515038,
     529919, 544639, 559193, 573576, 587785, 601815, 615661, 629320,
     642788, 656059, 669131, 681998, 694658, 707107, 719340, 731354,
     743145, 754710, 766044, 777146, 788011, 798636, 809017, 819152,
     829038, 838671, 848048, 857167, 866025, 874620, 882948, 891007,
     898794, 906308, 913545, 920505, 927184, 933580, 939693, 945519,
     951057, 956305, 961262, 965926, 970296, 974370, 978148, 981627,
     984808, 987688, 990268, 992546, 994522, 996195, 997564, 998630,
     999391, 999848, 1000000 >>

\* The sine of an angle in [0, 90] degrees: the table, interpolated linearly.
SinQ(m) ==
    LET lo == m \div 1000
        fr == m % 1000
    IN  IF fr = 0 THEN SinTab[lo + 1]
        ELSE SinTab[lo + 1] + ((SinTab[lo + 2] - SinTab[lo + 1]) * fr) \div 1000

\* Angles in [-180, 180] degrees.
Sin(m) ==
    LET a == Abs(m)
        q == IF a > 90000 THEN 180000 - a ELSE a
    IN  Sign(m) * SinQ(q)

Cos(m) ==
    LET a == Abs(m)
    IN  IF a > 90000 THEN -SinQ(a - 90000) ELSE SinQ(90000 - a)

\* Math.tan, TS-scaled; the angles used keep the cosine away from 0.
Tan(m) == MulDiv(Sin(m), TS, Cos(m))

-----------------------------------------------------------------------------
(* GeotechnicalEngine: constants and the soil catalog                      *)

WATER_DENSITY == 981000
DEFAULT_DEPTH == 500000
MC_ITERATIONS == 2000

Soil(name, c, phi, g) ==
    [name |-> name, cohesion |-> c * SC, friction |-> phi * 1000,
     unitWeight |-> g]

SOIL_DATABASE ==
    [clayey_sand |-> Soil("Clayey Sand (SC)", 8, 28, 1850000),
     silty_clay |-> Soil("Silty Clay (CL)", 20, 18, 1750000),
     sandy_gravel |-> Soil("Sandy Gravel (GW/GP)", 0, 36, 2000000),
     residual_soil |-> Soil("Residual Soil (Himalayan)", 12, 25, 1700000),
     weathered_rock |-> Soil("Weathered Rock", 25, 32, 2200000),
     colluvial_deposit |-> Soil("Colluvial Deposit", 5, 30, 1800000),
     black_cotton |-> Soil("Black Cotton Soil (CH)", 30, 12, 1650000),
     laterite |-> Soil("Laterite Soil", 15, 22, 1900000)]

SoilKeys == DOMAIN SOIL_DATABASE

-----------------------------------------------------------------------------
(* A. Infinite slope method                                                *)

\* The FoS before it is rounded: resisting / driving, 10 when nothing
\* drives, capped at 10.
InfiniteSlopeRatio_Inverted(resisting, driving) ==
    Min(IF resisting <= 0 THEN 10 * SC ELSE Div(driving, resisting), 10 * SC)

InfiniteSlopeRatio(resisting, driving) ==
    Min(IF driving <= 0 THEN 10 * SC ELSE Div(resisting, driving), 10 * SC)

infiniteSlope(p) ==
    LET c_eff == Mul(p.cohesion, SC - p.crackReduction) + p.rootCohesion
                 + p.structuralAdd
        hw == MulDiv(p.saturation, p.depth, 100 * SC)
        cos2 == MulDiv(Cos(p.slopeAngle), Cos(p.slopeAngle), TS)
        u == MulDiv(Mul(WATER_DENSITY, hw), cos2, TS)
        sigma_n == MulDiv(Mul(p.unitWeight, p.depth), cos2, TS)
        sigma_prime == Max(0, sigma_n - u)
        resisting == c_eff + MulDiv(sigma_prime, Tan(p.frictionAngle), TS)
        driving == MulDiv(MulDiv(Mul(p.unitWeight, p.depth),
                                 Sin(p.slopeAngle), TS),
                          Cos(p.slopeAngle), TS)
    IN  [fos |-> ToFixed(InfiniteSlopeRatio(resisting, driving), 4),
         resisting |-> ToFixed(resisting, 2),
         driving |-> ToFixed(driving, 2),
         pore_pressure |-> ToFixed(u, 2),
         c_eff |-> ToFixed(c_eff, 2)]

\* The parameter object of a call that leaves crackReduction, rootCohesion
\* and structuralAdd at their defaults.
SlopeParams(c, phi, beta, g, depth, sat) ==
    [cohesion |-> c, frictionAngle |-> phi, slopeAngle |-> beta,
     unitWeight |-> g, depth |-> depth, saturation |-> sat,
     crackReduction |-> 0, rootCohesion |-> 0, structuralAdd |-> 0]

-----------------------------------------------------------------------------
(* B. Simplified Bishop method                                             *)

BISHOP_MAX_ITER == 50
BISHOP_TOL == 100
N_SLICES == 10

generateSlices(p, nSlices) ==
    LET slopeLength == MulDiv(p.depth, TS, Sin(p.slopeAngle))
        sliceWidth == slopeLength \div nSlices
        slice(k) ==
            LET alpha == p.slopeAngle
                         - (p.slopeAngle * 7 * (2 * k - 1)) \div (20 * nSlices)
                sliceDepth ==
                    MulDiv(p.depth,
                           TS \div 2
                           + Sin((180000 * (2 * k - 1)) \div (2 * nSlices)) \div 2,
                           TS)
            IN  [id |-> k, width |-> sliceWidth, alpha |-> alpha,
                 weight |-> Mul(Mul(p.unitWeight, sliceDepth), sliceWidth),
                 cohesion |-> p.cohesion, phi |-> p.frictionAngle,
                 pore_pressure |->
                     MulDiv(Mul(WATER_DENSITY, sliceDepth), p.saturation,
                            100 * SC)]
    IN  [k \in 1..nSlices |-> slice(k)]

\* c'b + (W - ub) tan(phi') of one slice.
SliceStrength(s) ==
    Mul(s.cohesion, s.width)
    + MulDiv(s.weight - Mul(s.pore_pressure, s.width), Tan(s.phi), TS)

\* m_alpha of one slice for the current iterate.
MAlpha(s, fos_prev) ==
    FAdd(Num(MulDiv(Cos(s.alpha), SC, TS)),
         FDiv(Num(MulDiv(MulDiv(Sin(s.alpha), Tan(s.phi), TS), SC, TS)),
              fos_prev))

\* One pass of the inner loop over the slices: <<numerator, denominator>>.
RECURSIVE BishopSums(_, _, _)
BishopSums(slices, fos_prev, n) ==
    IF n = 0 THEN <<Num(0), 0>>
    ELSE LET rest == BishopSums(slices, fos_prev, n - 1)
             s == slices[n]
             m_alpha == MAlpha(s, fos_prev)
         IN  IF FAbsLt(m_alpha, BISHOP_TOL) THEN rest
             ELSE <<FAdd(rest[1], FDiv(Num(SliceStrength(s)), m_alpha)),
                    rest[2] + MulDiv(s.weight, Sin(s.alpha), TS)>>

\* fos_new of one iteration.
BishopIter(slices, fos_prev) ==
    LET sums == BishopSums(slices, fos_prev, Len(slices))
    IN  IF sums[2] = 0 THEN Num(10 * SC) ELSE FDiv(sums[1], Num(sums[2]))

\* The loop guard and the convergence test.
BishopGuard_Inclusive(iter, maxIter) == iter <= maxIter
BishopGuard(iter, maxIter) == iter < maxIter
BishopConverged(fos_new, fos_prev) == FAbsLt(FSub(fos_new, fos_prev), BISHOP_TOL)

BishopResult(fos_prev, iterations, converged) ==
    [fos |-> FToFixed(fos_prev, 4), iterations |-> iterations,
     converged |-> converged]

RECURSIVE BishopLoop(_, _, _, _)
BishopLoop(slices, maxIter, iter, fos_prev) ==
    IF ~BishopGuard(iter, maxIter) THEN BishopResult(fos_prev, iter, FALSE)
    ELSE LET fos_new == BishopIter(slices, fos_prev)
         IN  IF BishopConverged(fos_new, fos_prev)
             THEN BishopResult(fos_new, iter + 1, TRUE)
             ELSE BishopLoop(slices, maxIter, iter + 1, fos_new)

BISHOP_GUESS == 150000

bishopSimplified(slices, maxIter) ==
    BishopLoop(slices, maxIter, 0, Num(BISHOP_GUESS))

-----------------------------------------------------------------------------
(* C. Janbu simplified method                                              *)

JANBU_F0 == 105000

RECURSIVE JanbuSums(_, _)
JanbuSums(slices, n) ==
    IF n = 0 THEN <<0, 0>>
    ELSE LET rest == JanbuSums(slices, n - 1)
             s == slices[n]
             cos_alpha == Cos(s.alpha)
         IN  IF cos_alpha = 0 THEN rest
             ELSE <<rest[1] + MulDiv(SliceStrength(s), TS, cos_alpha),
                    rest[2] + MulDiv(s.weight, Tan(s.alpha), TS)>>

janbuSimplified(slices, f0) ==
    LET sums == JanbuSums(slices, Len(slices))
        fos == IF sums[2] = 0 THEN 10 * SC
               ELSE MulDiv(f0, sums[1], sums[2])
    IN  [fos |-> ToFixed(fos, 4), f0 |-> f0]

-----------------------------------------------------------------------------
(* F. Monte Carlo simulation                                               *)

MC_BINS == 40

\* normalRandom(mean, stddev) for a standard normal draw z (in thousandths).
normalRandom(mean, stddev, z) == mean + MulDiv(z, stddev, 1000)

\* The FoS of one iteration from its four draws <<z_c, z_phi, z_gamma, z_slope>>.
MCSample(params, z) ==
    LET c_i == Max(SC \div 10,
                   normalRandom(params.cohesion,
                                MulDiv(params.cohesion, 3, 10), z[1]))
        phi_i == Max(5000,
                     normalRandom(params.frictionAngle,
                                  params.frictionAngle \div 10, z[2]))
        gamma_i == normalRandom(params.unitWeight,
                                params.unitWeight \div 20, z[3])
        slope_i == Max(5000, normalRandom(params.slopeAngle, 2000, z[4]))
    IN  infiniteSlope(SlopeParams(c_i, phi_i, slope_i, gamma_i, params.depth,
                                  params.saturation)).fos

RECURSIVE SeqSum(_, _)
SeqSum(f, n) == IF n = 0 THEN 0 ELSE f[n] + SeqSum(f, n - 1)

SeqMin(f) == CHOOSE x \in {f[i] : i \in DOMAIN f} :
                 \A i \in DOMAIN f : x <= f[i]
SeqMax(f) == CHOOSE x \in {f[i] : i \in DOMAIN f} :
                 \A i \in DOMAIN f : x >= f[i]

\* Everything monteCarloSimulation does after its loop.
MCSummary(fosResults, failureCount, iterations) ==
    LET n == Len(fosResults)
        mean_fos == FDiv(Num(SeqSum(fosResults, n)), Num(iterations * SC))
        sqdev == IF n = 0 THEN Num(0)
                 ELSE IF ~IsNum(mean_fos) THEN NaN
                 ELSE Num(SeqSum([i \in 1..n |->
                                     Mul(fosResults[i] - mean_fos.v,
                                         fosResults[i] - mean_fos.v)], n))
        std_fos == FSqrt(FDiv(sqdev, Num((iterations - 1) * SC)))
        pf == FMul(FDiv(Num(failureCount * SC), Num(iterations * SC)),
                   Num(100 * SC))
        beta_index == IF IsNum(std_fos) /\ std_fos.v > 0
                      THEN FDiv(FSub(mean_fos, Num(SC)), std_fos)
                      ELSE Num(99 * SC)
        min_fos == IF n = 0 THEN Inf(1) ELSE Num(SeqMin(fosResults))
        max_fos == IF n = 0 THEN Inf(-1) ELSE Num(SeqMax(fosResults))
        binWidth == FDiv(FSub(max_fos, min_fos), Num(MC_BINS * SC))
        idx(i) == LET q == FDiv(FSub(Num(fosResults[i]), min_fos), binWidth)
                  IN  IF IsNum(q) THEN Min(q.v \div SC, MC_BINS - 1)
                      ELSE IF q.k = "inf" /\ q.v < 0 THEN -1
                      ELSE IF q.k = "inf" THEN MC_BINS - 1
                      ELSE -1
    IN  [mean_fos |->
             IF n > 0 /\ \A i \in 1..n : fosResults[i] >= 0 /\ fosResults[i] % 10 = 0
             THEN Num(10 * B64ToFixed4(B64Div(B64Sum(fosResults, n), iterations)))
             ELSE FToFixed(mean_fos, 4),
         std_fos |-> FToFixed(std_fos, 4),
         min_fos |-> FToFixed(min_fos, 4),
         max_fos |-> FToFixed(max_fos, 4),
         probability_of_failure |-> FToFixed(pf, 2),
         reliability_index |-> FToFixed(beta_index, 3),
         iterations |-> iterations,
         histogram |-> [b \in 0..(MC_BINS - 1) |->
                           Cardinality({i \in 1..n : idx(i) = b})],
         binEdges |-> [b \in 0..MC_BINS |->
                          FToFixed(FAdd(min_fos, FMul(Num(b * SC), binWidth)),
                                   3)],
         rawResults |-> fosResults]

-----------------------------------------------------------------------------
(* E. Rainfall intensity-duration threshold                                *)

\* Math.pow(duration_hr, -0.39) and Math.pow(duration_hr, -0.25), times TS,
\* for the durations the model uses.
RainDurations == {1, 6, 12, 24, 48, 72}
PowCaine == [d \in RainDurations |->
    CASE d = 1 -> 1000000 [] d = 6 -> 497188 [] d = 12 -> 379419
      [] d = 24 -> 289546 [] d = 48 -> 220961 [] d = 72 -> 188643]
PowHimalaya == [d \in RainDurations |->
    CASE d = 1 -> 1000000 [] d = 6 -> 638943 [] d = 12 -> 537285
      [] d = 24 -> 451801 [] d = 48 -> 379918 [] d = 72 -> 343295]

checkIDThreshold(intensity_mmhr, duration_hr) ==
    LET threshold_caine == MulDiv(1482000, PowCaine[duration_hr], TS)
        threshold_himalaya == MulDiv(900000, PowHimalaya[duration_hr], TS)
        level == IF intensity_mmhr > threshold_caine THEN 3
                 ELSE IF intensity_mmhr > threshold_himalaya THEN 2
                 ELSE IF intensity_mmhr > MulDiv(threshold_himalaya, 7, 10)
                      THEN 1
                 ELSE 0
    IN  [threshold_caine |-> ToFixed(threshold_caine, 3),
         threshold_himalaya |-> ToFixed(threshold_himalaya, 3),
         current_intensity |-> intensity_mmhr,
         current_duration |-> duration_hr,
         level |-> level,
         exceedance_pct_global |->
             ToFixed(100 * Div(intensity_mmhr, threshold_caine), 1),
         exceedance_pct_regional |->
             ToFixed(100 * Div(intensity_mmhr, threshold_himalaya), 1)]

-----------------------------------------------------------------------------
(* F. Vegetation and H. foundation safety                                  *)

vegetationFactor(vegetationPct) ==
    LET band == IF vegetationPct >= 80 * SC
                THEN <<12, "Dense Forest", "Low">>
                ELSE IF vegetationPct >= 60 * SC
                THEN <<8, "Moderate Forest", "Low-Medium">>
                ELSE IF vegetationPct >= 40 * SC
                THEN <<5, "Sparse Vegetation", "Medium">>
                ELSE IF vegetationPct >= 20 * SC
                THEN <<2, "Degraded/Grassland", "High">>
                ELSE <<0, "Barren/Exposed", "Critical">>
    IN  [rootCohesion |-> band[1] * SC,
         category |-> band[2],
         deforestationRisk |-> band[3],
         ndvi_estimate |-> ToFixed(MulDiv(vegetationPct, 7, 1000) + SC \div 10, 2),
         vegetationPct |-> vegetationPct]

foundationSafetyCheck(slopeAngle, distanceFromCrest, slopeHeight) ==
    LET minSetback_IS == Max(3 * SC, MulDiv(slopeHeight, Tan(45000 - 15000), TS))
        minSetback_IRC == slopeHeight \div 3
        effectiveSetback == Max(minSetback_IS, minSetback_IRC)
        isSetbackSafe == distanceFromCrest >= effectiveSetback
        reductionFactor ==
            Min(SC, Div(distanceFromCrest, (effectiveSetback * 3) \div 2))
    IN  [minSetback_IS |-> ToFixed(minSetback_IS, 1),
         minSetback_IRC |-> ToFixed(minSetback_IRC, 1),
         effectiveSetback |-> ToFixed(effectiveSetback, 1),
         actualSetback |-> distanceFromCrest,
         isSetbackSafe |-> isSetbackSafe,
         bearingCapacityReduction |-> ToFixed(100 * (SC - reductionFactor), 1)]

-----------------------------------------------------------------------------
(* J. Comprehensive analysis                                               *)

FScale(f, k) == IF IsNum(f) THEN Num(Mul(f.v, k)) ELSE f

drainageSatModifier(drainageCondition) ==
    CASE drainageCondition = "good" -> 70000
      [] drainageCondition = "moderate" -> 85000
      [] drainageCondition = "poor" -> 100000
      [] drainageCondition = "blocked" -> 115000
      [] OTHER -> 100000

\* SOIL_DATABASE[soilType] || SOIL_DATABASE['clayey_sand']
SoilLookup(soilType) ==
    IF soilType \in SoilKeys THEN SOIL_DATABASE[soilType]
    ELSE SOIL_DATABASE["clayey_sand"]

\* The returned object without its timestamp, location, infiltration,
\* monteCarlo, sensitivity and disclaimer fields.
runComprehensiveAnalysis(siteData) ==
    LET soil == SoilLookup(siteData.soilType)
        crackReduction == IF siteData.cracks THEN SC \div 4 ELSE 0
        vegAnalysis == vegetationFactor(siteData.vegetationPct)
        effectiveSaturation ==
            Min(100 * SC,
                Mul(siteData.saturation,
                    drainageSatModifier(siteData.drainageCondition)))
        base == SlopeParams(soil.cohesion, soil.friction, siteData.slopeAngle,
                            soil.unitWeight, DEFAULT_DEPTH, effectiveSaturation)
        infiniteSlopeResult ==
            infiniteSlope([base EXCEPT !.crackReduction = crackReduction,
                                       !.rootCohesion = vegAnalysis.rootCohesion])
        slices == generateSlices(base, N_SLICES)
        bishopResult == bishopSimplified(slices, BISHOP_MAX_ITER)
        janbuResult == janbuSimplified(slices, JANBU_F0)
        idResult == checkIDThreshold(siteData.rainfallIntensity,
                                     siteData.rainfallDuration)
        foundationResult ==
            foundationSafetyCheck(
                siteData.slopeAngle, siteData.houseDistance,
                MulDiv(MulDiv(DEFAULT_DEPTH, TS, Sin(siteData.slopeAngle)),
                       Cos(siteData.slopeAngle), TS))
        compositeFoS ==
            FAdd(FAdd(Num(MulDiv(infiniteSlopeResult.fos, 40, 100)),
                      FScale(bishopResult.fos, 35000)),
                 Num(MulDiv(janbuResult.fos, 25, 100)))
        riskModifier ==
            (IF siteData.seepage THEN 15000 ELSE 0)
            + (IF siteData.pastLandslides THEN 20000 ELSE 0)
            + (IF siteData.construction THEN 10000 ELSE 0)
            + (IF idResult.level >= 2 THEN 15000 ELSE 0)
    IN  [soilProperties |-> soil,
         slopeAngle |-> siteData.slopeAngle,
         effectiveSaturation |-> effectiveSaturation,
         infiniteSlope |-> infiniteSlopeResult,
         bishop |-> bishopResult,
         janbu |-> janbuResult,
         compositeFoS |-> FToFixed(compositeFoS, 4),
         rainfallThreshold |-> idResult,
         vegetation |-> vegAnalysis,
         foundation |-> foundationResult,
         riskModifier |-> riskModifier,
         fieldObservations |->
             [cracks |-> siteData.cracks, seepage |-> siteData.seepage,
              pastLandslides |-> siteData.pastLandslides,
              construction |-> siteData.construction]]

-----------------------------------------------------------------------------
(* Risk classifier: component scores, each SC-scaled on the 0-100 scale    *)

seismicToRiskScore(earthquakeData) ==
    IF earthquakeData = Null THEN 20 * SC
    ELSE LET m == earthquakeData.maxMagnitude
             d == earthquakeData.nearestDistance
         IN  Min(100 * SC,
                 Min(30 * SC, (earthquakeData.totalEvents * SC) \div 2)
                 + (IF m >= 6 * SC THEN 40 * SC
                    ELSE IF m >= 5 * SC THEN 30 * SC
                    ELSE IF m >= 4 * SC THEN 20 * SC
                    ELSE IF m >= 3 * SC THEN 10 * SC ELSE 0)
                 + (IF d < 50 * SC THEN 30 * SC
                    ELSE IF d < 100 * SC THEN 20 * SC
                    ELSE IF d < 200 * SC THEN 10 * SC ELSE 0))

\* Every factor of safety scored as the lowest risk band.
fosToRiskScore_Flat(fos) == 10 * SC

fosToRiskScore(fos) ==
    IF fos >= 2 * SC THEN Max(0, 10 * SC - (fos - 2 * SC) * 10)
    ELSE IF fos >= 150000 THEN 10 * SC + (2 * SC - fos) * 40
    ELSE IF fos >= 120000 THEN 30 * SC + (150000 - fos) * 100
    ELSE IF fos >= SC THEN 60 * SC + (120000 - fos) * 125
    ELSE IF fos >= 80000 THEN 85 * SC + (SC - fos) * 50
    ELSE Min(100 * SC, 95 * SC + (80000 - fos) * 25)

rainfallToRiskScore(threshold) ==
    LET level == threshold.level
        exceedance == threshold.exceedance_pct_regional
    IN  IF level >= 3 THEN 90 * SC + Min(10 * SC, exceedance \div 10)
        ELSE IF level >= 2 THEN 60 * SC + Min(30 * SC, exceedance \div 5)
        ELSE IF level >= 1 THEN 30 * SC + Min(30 * SC, exceedance \div 3)
        ELSE Max(0, MulDiv(exceedance, 3, 10))

vegetationToRiskScore(veg) ==
    LET pct == veg.vegetationPct
    IN  IF pct >= 80 * SC THEN 5 * SC
        ELSE IF pct >= 60 * SC THEN 20 * SC
        ELSE IF pct >= 40 * SC THEN 40 * SC
        ELSE IF pct >= 20 * SC THEN 65 * SC
        ELSE 85 * SC

structuralToRiskScore(foundation) ==
    IF foundation = Null THEN 50 * SC
    ELSE IF foundation.isSetbackSafe
    THEN LET margin == foundation.actualSetback - foundation.effectiveSetback
         IN  IF margin > 5 * SC THEN 5 * SC
             ELSE IF margin > 2 * SC THEN 15 * SC
             ELSE 25 * SC
    ELSE LET deficit == foundation.effectiveSetback - foundation.actualSetback
         IN  Min(100 * SC, 50 * SC + deficit * 10)

terrainToRiskScore(slopeAngle, saturation) ==
    LET slopeScore == IF slopeAngle >= 45000 THEN 80
                      ELSE IF slopeAngle >= 35000 THEN 55
                      ELSE IF slopeAngle >= 25000 THEN 35
                      ELSE IF slopeAngle >= 15000 THEN 15
                      ELSE 5
        satScore == MulDiv(saturation, 7, 10)
    IN  (slopeScore * SC * 6) \div 10 + MulDiv(satScore, 4, 10)

fieldObsToRiskScore(obs) ==
    Min(100 * SC,
        SC * ((IF obs.cracks THEN 25 ELSE 0) + (IF obs.seepage THEN 25 ELSE 0)
              + (IF obs.pastLandslides THEN 30 ELSE 0)
              + (IF obs.construction THEN 20 ELSE 0)))

\* The tier of a score: the breakpoints are lower-inclusive.
TierCode_Strict(score) ==
    IF score > 80 * SC THEN 5
    ELSE IF score > 60 * SC THEN 4
    ELSE IF score > 40 * SC THEN 3
    ELSE IF score > 20 * SC THEN 2
    ELSE 1

TierCode(score) ==
    IF score >= 80 * SC THEN 5
    ELSE IF score >= 60 * SC THEN 4
    ELSE IF score >= 40 * SC THEN 3
    ELSE IF score >= 20 * SC THEN 2
    ELSE 1

TierLevels == <<"VERY LOW", "LOW", "MEDIUM", "HIGH", "CRITICAL">>
TierZones == <<"Zone I (Very Low Hazard)", "Zone II (Low Hazard)",
               "Zone III (Moderate Hazard)", "Zone IV (High Hazard)",
               "Zone V (Very High Hazard)">>

scoreToClassification(score) ==
    LET code == TierCode(score)
    IN  [level |-> TierLevels[code], code |-> code,
         nidmCategory |-> TierZones[code]]

WEIGHTS_Heavy ==
    [geotechnical |-> 35, rainfall |-> 20, vegetation |-> 12,
     structural |-> 8, terrain |-> 10, field |-> 5, seismic |-> 10,
     weather |-> 5]

\* Component weights in hundredths: the 8-component classifier and the
\* 6-component one of the legacy copy.
WEIGHTS ==
    [geotechnical |-> 30, rainfall |-> 20, vegetation |-> 12,
     structural |-> 8, terrain |-> 10, field |-> 5, seismic |-> 10,
     weather |-> 5]
LEGACY_WEIGHTS ==
    [geotechnical |-> 35, rainfall |-> 25, vegetation |-> 15,
     structural |-> 10, terrain |-> 10, field |-> 5, seismic |-> 0,
     weather |-> 0]

ComponentScores(ar) ==
    [geotechnical |-> fosToRiskScore(ar.compositeFoS),
     rainfall |-> rainfallToRiskScore(ar.rainfallThreshold),
     vegetation |-> vegetationToRiskScore(ar.vegetation),
     structural |-> structuralToRiskScore(ar.foundation),
     terrain |-> terrainToRiskScore(ar.slopeAngle, ar.effectiveSaturation),
     field |-> fieldObsToRiskScore(ar.fieldObservations),
     seismic |-> seismicToRiskScore(ar.liveEarthquakes),
     weather |-> Min(100 * SC, ar.weatherSeverity)]

WeightedComposite(scores, weights) ==
    (scores.geotechnical * weights.geotechnical
     + scores.rainfall * weights.rainfall
     + scores.vegetation * weights.vegetation
     + scores.structural * weights.structural
     + scores.terrain * weights.terrain
     + scores.field * weights.field
     + scores.seismic * weights.seismic
     + scores.weather * weights.weather) \div 100

\* compositeScore + riskModifier * 100 * 0.15, capped at 100.
AdjustedScore(compositeScore, riskModifier) ==
    Min(100 * SC, compositeScore + riskModifier * 15)

\* analysisResults[f][g] is truthy; falsy is the falsy value of its type:
\* 0, "" or FALSE.
Truthy(ar, f, g, falsy) ==
    /\ f \in DOMAIN ar
    /\ ar[f] # Null
    /\ g \in DOMAIN ar[f]
    /\ ar[f][g] # falsy

\* analysisResults[f][g] !== undefined.
Defined(ar, f, g) == f \in DOMAIN ar /\ ar[f] # Null /\ g \in DOMAIN ar[f]

calculateConfidence(ar) ==
    LET dataPoints ==
            (IF Truthy(ar, "infiniteSlope", "fos", 0) THEN 2 ELSE 0)
            + (IF Truthy(ar, "bishop", "converged", FALSE) THEN 1 ELSE 0)
            + (IF Defined(ar, "monteCarlo", "iterations")
                  /\ ar.monteCarlo.iterations > 0 THEN 2 ELSE 0)
            + (IF Truthy(ar, "rainfallThreshold", "status", "") THEN 1 ELSE 0)
            + (IF Defined(ar, "vegetation", "vegetationPct") THEN 1 ELSE 0)
            + (IF Defined(ar, "foundation", "isSetbackSafe") THEN 1 ELSE 0)
            + (IF Truthy(ar, "sensitivity", "base_fos", 0) THEN 1 ELSE 0)
            + (IF Truthy(ar, "infiltration", "cumulative_infiltration_mm", 0)
               THEN 1 ELSE 0)
        maxPoints == 10
        pct == (dataPoints * 100) \div maxPoints
    IN  [level |-> IF pct >= 80 THEN "HIGH"
                   ELSE IF pct >= 60 THEN "MODERATE"
                   ELSE IF pct >= 40 THEN "LOW"
                   ELSE "VERY LOW",
         percentage |-> pct,
         dataPointsAvailable |-> dataPoints,
         dataPointsMaximum |-> maxPoints]

liveDataBoost(ar) ==
    (IF ar.liveEarthquakes # Null THEN 2 ELSE 0)
    + (IF ar.weatherSeverity > 0 THEN 2 ELSE 0)
    + (IF Truthy(ar, "dataSourcesUsed", "soilGrids", FALSE) THEN 3 ELSE 0)
    + (IF Truthy(ar, "dataSourcesUsed", "openMeteoWeather", FALSE) THEN 2 ELSE 0)
    + (IF Truthy(ar, "dataSourcesUsed", "openMeteoHistorical", FALSE) THEN 2 ELSE 0)
    + (IF Truthy(ar, "dataSourcesUsed", "openMeteoElevation", FALSE) THEN 2 ELSE 0)

\* Math.min(100, confidence + liveDataBoost).  confidence is the object of
\* calculateConfidence, so + joins the strings of its operands, and
\* Math.min turns a string that is no numeral into NaN.
BoostedConfidence(confidence, boost) ==
    LET sum == IF DOMAIN confidence = {"k", "v"} /\ confidence.k = "num"
               THEN Num(confidence.v + boost)
               ELSE [k |-> "string", v |-> "[object Object]" \o ToString(boost)]
    IN  IF sum.k = "num" THEN Num(Min(100, sum.v)) ELSE NaN

\* The returned object without its probabilityIndex, inputs, texts,
\* dataSources, disclaimer and timestamp.
RiskAssessment(ar, weights) ==
    LET scores == ComponentScores(ar)
        adjustedScore ==
            AdjustedScore(WeightedComposite(scores, weights), ar.riskModifier)
    IN  [compositeScore |-> ToFixed(adjustedScore, 1),
         classification |-> scoreToClassification(adjustedScore),
         components |-> [c \in DOMAIN scores |-> ToFixed(scores[c], 1)],
         weights |-> weights,
         riskModifier |-> ar.riskModifier]

classifyRisk(ar) ==
    RiskAssessment(ar, WEIGHTS)
    @@ [confidence |-> BoostedConfidence(calculateConfidence(ar),
                                         liveDataBoost(ar))]
classifyRiskLegacy(ar) ==
    RiskAssessment(ar, LEGACY_WEIGHTS)
    @@ [confidence |-> calculateConfidence(ar)]

Clamp01(x) == Max(0, Min(SC, x))

\* The deterministic probability calculateProbabilityIndex derives from the
\* factor of safety.
DetProb(fos) ==
    IF fos <= 50000 THEN 99000
    ELSE IF fos <= SC THEN 50000 + ((SC - fos) * 98) \div 100
    ELSE IF fos <= 150000 THEN 30000 - ((fos - SC) * 40) \div 100
    ELSE IF fos <= 2 * SC THEN 10000 - ((fos - 150000) * 10) \div 100
    ELSE 2000

\* mcProbability is an IEEE value; NaN stands for undefined as well, both are
\* read as 0.
calculateProbabilityIndex(fos, mcProbability, compositeScore) ==
    LET detProb == DetProb(fos)
        stochProb == IF IsNum(mcProbability) THEN mcProbability.v \div 100 ELSE 0
        scoreProb == compositeScore \div 100
        combinedProb == (detProb * 35 + stochProb * 40 + scoreProb * 25) \div 100
    IN  [deterministic |-> ToFixed(Clamp01(detProb), 3),
         stochastic |-> ToFixed(Clamp01(stochProb), 3),
         scoreBased |-> ToFixed(Clamp01(scoreProb), 3),
         combined |-> ToFixed(Clamp01(combinedProb), 3),
         annualProbability |-> ToFixed(Clamp01((combinedProb * 3) \div 10), 4),
         returnPeriod_years |->
             IF combinedProb > 0
             THEN (20 * SC + 3 * combinedProb) \div (6 * combinedProb)
             ELSE "> 100"]

-----------------------------------------------------------------------------
(* Mitigation engine                                                       *)

Measure(name, riskReduction, category) ==
    [name |-> name, riskReduction |-> riskReduction, category |-> category]

\* The measures of the four categories, keyed by measure.
MITIGATION_DB ==
    [surface_drains |-> Measure("Surface Drains (Lined Channels)", 15, "drainage"),
     horizontal_drains |->
         Measure("Horizontal Drains (Perforated Pipes)", 20, "drainage"),
     toe_drains |-> Measure("Toe Drains (French Drains)", 18, "drainage"),
     catch_drains |->
         Measure("Catch Drains (Interceptor Ditches)", 22, "drainage"),
     gabion_walls |-> Measure("Gabion Retaining Walls", 35, "structural"),
     rcc_walls |->
         Measure("RCC Retaining Walls (Cantilever/Counterfort)", 45,
                 "structural"),
     soil_nailing |-> Measure("Soil Nailing", 40, "structural"),
     rock_bolting |-> Measure("Rock Bolting / Anchoring", 38, "structural"),
     shotcrete |-> Measure("Shotcrete Facing", 25, "structural"),
     vetiver_grass |->
         Measure("Vetiver Grass System (VGS)", 20, "bioengineering"),
     bamboo_crib |-> Measure("Bamboo Crib Walls", 18, "bioengineering"),
     coir_geotextile |->
         Measure("Coir Geotextile / Coir Mat", 12, "bioengineering"),
     native_species |->
         Measure("Native Species Plantation", 25, "bioengineering"),
     cut_slope_correction |->
         Measure("Cut Slope Correction / Re-grading", 40, "landManagement"),
     setback_planning |->
         Measure("Setback Distance Enforcement", 30, "landManagement"),
     relocation |-> Measure("Planned Relocation", 95, "landManagement")]

priorityLevel(p) ==
    CASE p = "LOW" -> 1 [] p = "MEDIUM" -> 2 [] p = "HIGH" -> 3
      [] p = "CRITICAL" -> 4 [] OTHER -> 0

EmptyRecommendations ==
    [immediate |-> <<>>, shortTerm |-> <<>>, longTerm |-> <<>>,
     monitoring |-> <<>>, expectedRiskReduction |-> 0, priorityOrder |-> <<>>]

\* The recommendations after addRecommendation(rec, timeframe, measure,
\* priority, reason): the duplicate is looked for in rec[timeframe] only.
addRecommendation(rec, timeframe, measure, priority, reason) ==
    LET bucket == rec[timeframe]
        found == {i \in DOMAIN bucket : bucket[i].name = measure.name}
    IN  IF found # {}
        THEN LET i == CHOOSE j \in found : \A k \in found : j <= k
             IN  IF priorityLevel(priority) > priorityLevel(bucket[i].priority)
                 THEN [rec EXCEPT ![timeframe][i].priority = priority,
                                  ![timeframe][i].reason = reason]
                 ELSE rec
        ELSE [rec EXCEPT ![timeframe] =
                  Append(@, [name |-> measure.name,
                             riskReduction |-> measure.riskReduction,
                             priority |-> priority, reason |-> reason])]

generateMonitoringPlan(riskLevel, slopeAngle, saturation) ==
    <<(IF riskLevel >= 4 THEN "Visual Inspection, weekly during monsoon"
       ELSE "Visual Inspection, monthly during monsoon")>>
    \o (IF riskLevel >= 3 THEN <<"Surface Survey Markers (Pegs)">> ELSE <<>>)
    \o (IF riskLevel >= 4
        THEN <<"Inclinometer / Tilt Sensors", "Piezometer">> ELSE <<>>)
    \o (IF saturation > 60 * SC \/ riskLevel >= 4
        THEN <<"Rain Gauge (Automatic)">> ELSE <<>>)

\* A decimal fraction as base-100 digits <<integer part, d1, d2, ...>>;
\* ScaleDigits(d, k) is d * k / 100, exactly, one digit longer.
RECURSIVE ScaleDigits(_, _)
ScaleDigits(d, k) ==
    IF d = <<>> THEN <<0>>
    ELSE LET rest == ScaleDigits(Tail(d), k)
             x == Head(d) * k + rest[1]
         IN  <<x \div 100, x % 100>> \o Tail(rest)

\* combinedRR after the first n recommendations: the product of the
\* (1 - riskReduction / 100).
RECURSIVE CombinedRR(_, _)
CombinedRR(allRecs, n) ==
    IF n = 0 THEN <<1>>
    ELSE ScaleDigits(CombinedRR(allRecs, n - 1),
                     100 - allRecs[n].riskReduction)

\* totalRiskReduction after the first n recommendations.
RECURSIVE TotalRiskReduction(_, _)
TotalRiskReduction(allRecs, n) ==
    IF n = 0 THEN 0
    ELSE TotalRiskReduction(allRecs, n - 1) + allRecs[n].riskReduction

Digit(d, i) == IF i <= Len(d) THEN d[i] ELSE 0

\* 1000 * combinedRR lies between Floor1000(d) and Floor1000(d) + 1.
Floor1000(d) == 1000 * d[1] + 10 * Digit(d, 2) + Digit(d, 3) \div 10

\* (1 - combinedRR) * 100 has exactly 5 as its second decimal and no
\* further decimals: no double holds this value.
IsTie(d) == Digit(d, 3) % 10 = 5 /\ \A i \in 4..Len(d) : d[i] = 0

\* ((1 - combinedRR) * 100).toFixed(1), in tenths.  toFixed rounds the double
\* that the multiplications produced; where the exact value is a tie the
\* double lies above it or below it.
RiskReductionTenths(d, doubleAbove) ==
    IF IsTie(d)
    THEN (IF doubleAbove THEN 1000 - Floor1000(d) ELSE 999 - Floor1000(d))
    ELSE IF Digit(d, 3) % 10 >= 5 THEN 999 - Floor1000(d)
    ELSE 1000 - Floor1000(d)

AllRecs(rec) == rec.immediate \o rec.shortTerm \o rec.longTerm

\* The reductions added up, capped at 100.
calculateAggregates_Additive(rec, doubleAbove) ==
    LET allRecs == rec.immediate \o rec.shortTerm \o rec.longTerm
    IN  [rec EXCEPT !.expectedRiskReduction =
             Min(100, TotalRiskReduction(allRecs, Len(allRecs))) * SC]

calculateAggregates(rec, doubleAbove) ==
    LET allRecs == AllRecs(rec)
        combinedRR == CombinedRR(allRecs, Len(allRecs))
    IN  [rec EXCEPT !.expectedRiskReduction =
             RiskReductionTenths(combinedRR, doubleAbove) * (SC \div 10)]

Rule_Escalated(when, timeframe, measure, priority, reason) ==
    [when |-> when, timeframe |-> timeframe, measure |-> MITIGATION_DB[measure],
     priority |-> IF priority = "HIGH" THEN "CRITICAL" ELSE priority,
     reason |-> reason]

Rule_Downgraded(when, timeframe, measure, priority, reason) ==
    [when |-> when, timeframe |-> timeframe, measure |-> MITIGATION_DB[measure],
     priority |-> IF priority = "CRITICAL" THEN "HIGH" ELSE priority,
     reason |-> reason]

Rule(when, timeframe, measure, priority, reason) ==
    [when |-> when, timeframe |-> timeframe, measure |-> MITIGATION_DB[measure],
     priority |-> priority, reason |-> reason]

\* The rules of recommendMitigation in the order of the code.
MitigationRules(riskAssessment, analysisResults) ==
    LET code == riskAssessment.classification.code
        riskLevel == IF code = 0 THEN 3 ELSE code
        compositeFoS == analysisResults.compositeFoS
        slopeAngle == analysisResults.slopeAngle
        effectiveSaturation == analysisResults.effectiveSaturation
        foundation == analysisResults.foundation
        isSetbackSafe == foundation # Null /\ foundation.isSetbackSafe
        vegPct == analysisResults.vegetation.vegetationPct
        wet == \/ effectiveSaturation > 40 * SC
               \/ analysisResults.rainfallThreshold.level >= 1
        active == riskLevel >= 4 /\ compositeFoS < 120000
    IN  << Rule(wet, "shortTerm", "surface_drains", "HIGH",
                "High saturation or rainfall threshold approaching"),
           Rule(wet /\ effectiveSaturation > 60 * SC, "shortTerm",
                "horizontal_drains", "HIGH",
                "Saturation > 60% - subsurface drainage critical"),
           Rule(wet, "shortTerm", "toe_drains", "MEDIUM",
                "Standard toe drainage to prevent seepage erosion"),
           Rule(analysisResults.fieldObservations.seepage, "immediate",
                "catch_drains", "CRITICAL",
                "Active seepage observed - immediate interceptor drainage needed"),
           Rule(riskLevel >= 3 /\ slopeAngle >= 35000, "shortTerm",
                "gabion_walls", "HIGH",
                "Slope angle with moderate risk - toe support needed"),
           Rule(active, "immediate", "soil_nailing", "CRITICAL",
                "FoS - active stabilization required"),
           Rule(active /\ slopeAngle >= 50000, "shortTerm", "shotcrete",
                "HIGH", "Steep slope - surface protection required"),
           Rule(riskLevel >= 5 /\ compositeFoS < 90000, "immediate",
                "rcc_walls", "CRITICAL",
                "Critical FoS - rigid structural support mandatory"),
           Rule(~isSetbackSafe /\ foundation # Null, "immediate",
                "gabion_walls", "CRITICAL",
                "Structure setback deficit below minimum"),
           Rule(vegPct < 60 * SC, "shortTerm", "vetiver_grass", "HIGH",
                "Vegetation cover - contour hedgerows needed"),
           Rule(vegPct < 40 * SC /\ slopeAngle <= 50000, "longTerm",
                "native_species", "MEDIUM",
                "Low vegetation - long-term afforestation recommended"),
           Rule(vegPct < 30 * SC, "shortTerm", "coir_geotextile", "HIGH",
                "Very low vegetation - erosion mat needed for immediate protection"),
           Rule(slopeAngle <= 40000 /\ riskLevel <= 3, "longTerm",
                "bamboo_crib", "LOW",
                "Moderate slope - bamboo cribs as sustainable option"),
           Rule(slopeAngle >= 40000 /\ compositeFoS < 130000, "shortTerm",
                "cut_slope_correction", "HIGH",
                "Steep slope with low FoS - re-grading recommended"),
           Rule(~isSetbackSafe, "immediate", "setback_planning", "CRITICAL",
                "Setback non-compliance - enforcement required"),
           Rule(/\ riskLevel >= 5
                /\ compositeFoS < 80000
                /\ analysisResults.fieldObservations.pastLandslides,
                "immediate", "relocation", "CRITICAL",
                "Critical risk with failure history - relocation may be necessary") >>

\* The recommendations after the first n rules.
RECURSIVE ApplyRules(_, _)
ApplyRules(rules, n) ==
    IF n = 0 THEN EmptyRecommendations
    ELSE LET rec == ApplyRules(rules, n - 1)
             r == rules[n]
         IN  IF r.when
             THEN addRecommendation(rec, r.timeframe, r.measure, r.priority,
                                    r.reason)
             ELSE rec

WithTimeframe(bucket, timeframe) ==
    [i \in DOMAIN bucket |->
        [name |-> bucket[i].name, riskReduction |-> bucket[i].riskReduction,
         priority |-> bucket[i].priority, reason |-> bucket[i].reason,
         timeframe |-> timeframe]]

recommendMitigation(riskAssessment, analysisResults, doubleAbove) ==
    LET rules == MitigationRules(riskAssessment, analysisResults)
        code == riskAssessment.classification.code
        selected == ApplyRules(rules, Len(rules))
        monitored ==
            [selected EXCEPT !.monitoring =
                generateMonitoringPlan(IF code = 0 THEN 3 ELSE code,
                                       analysisResults.slopeAngle,
                                       analysisResults.effectiveSaturation)]
        rec == calculateAggregates(monitored, doubleAbove)
    IN  [rec EXCEPT !.priorityOrder =
             WithTimeframe(rec.immediate, "Immediate (0-30 days)")
             \o WithTimeframe(rec.shortTerm, "Short-Term (1-6 months)")
             \o WithTimeframe(rec.longTerm, "Long-Term (6-24 months)")]

fosToFailureProbability(fos) ==
    IF fos <= 50000 THEN 99000
    ELSE IF fos <= 80000 THEN 85000 + ((80000 - fos) * 47) \div 100
    ELSE IF fos <= SC THEN 50000 + ((SC - fos) * 175) \div 100
    ELSE IF fos <= 120000 THEN 25000 + ((120000 - fos) * 125) \div 100
    ELSE IF fos <= 150000 THEN 10000 + ((150000 - fos) * 50) \div 100
    ELSE IF fos <= 2 * SC THEN 2000 + ((2 * SC - fos) * 16) \div 100
    ELSE 1000

\* The FoS increment of one recommendation, by the first pattern its name
\* includes.
FosContribution(name) ==
    LET db == MITIGATION_DB
    IN  IF name \in {db.gabion_walls.name, db.rcc_walls.name} THEN 25000
        ELSE IF name \in {db.soil_nailing.name, db.rock_bolting.name} THEN 30000
        ELSE IF name \in {db.surface_drains.name, db.horizontal_drains.name,
                          db.toe_drains.name, db.catch_drains.name} THEN 15000
        ELSE IF name \in {db.vetiver_grass.name, db.native_species.name}
        THEN 10000
        ELSE IF name = db.cut_slope_correction.name THEN 35000
        ELSE IF name = db.shotcrete.name THEN 10000
        ELSE 5000

RECURSIVE FosImprovementSum(_, _)
FosImprovementSum(allRecs, n) ==
    IF n = 0 THEN 0
    ELSE FosImprovementSum(allRecs, n - 1) + FosContribution(allRecs[n].name)

RiskLabel(fos) ==
    IF fos < SC THEN "CRITICAL" ELSE IF fos < 120000 THEN "HIGH"
    ELSE IF fos < 150000 THEN "MEDIUM" ELSE "LOW"

getOutcomeAnalysis(currentFoS, recommendations) ==
    LET allRecs == AllRecs(recommendations)
        fosImprovement == (FosImprovementSum(allRecs, Len(allRecs)) * 7) \div 10
        afterFoS == currentFoS + fosImprovement
        beforeProb == fosToFailureProbability(currentFoS)
        afterProb == fosToFailureProbability(afterFoS)
    IN  [before |-> [fos |-> ToFixed(currentFoS, 3),
                     failureProbability |-> beforeProb,
                     riskLabel |-> RiskLabel(currentFoS)],
         after |-> [fos |-> ToFixed(afterFoS, 3),
                    failureProbability |-> afterProb,
                    riskLabel |-> RiskLabel(afterFoS)],
         improvement |->
             [fosIncrease |-> ToFixed(fosImprovement, 3),
              probabilityReduction |-> ToFixed(beforeProb - afterProb, 3),
              riskReductionPct |->
                  ToFixed(recommendations.expectedRiskReduction, 1)]]

-----------------------------------------------------------------------------
(* Application: the analysis pipeline of performAnalysis                   *)

\* state.analysisResults as classifyRisk and recommendMitigation read it:
\* the analysis result with the live data injected.  liveData is Null when
\* no live data was stored; its weather and earthquakes are Null when that
\* fetch brought nothing.
InjectLiveData(analysis, liveData) ==
    [compositeFoS |-> analysis.compositeFoS.v,
     rainfallThreshold |-> analysis.rainfallThreshold,
     vegetation |-> analysis.vegetation,
     foundation |-> analysis.foundation,
     riskModifier |-> analysis.riskModifier,
     fieldObservations |-> analysis.fieldObservations,
     slopeAngle |-> analysis.slopeAngle,
     effectiveSaturation |-> analysis.effectiveSaturation,
     liveEarthquakes |-> IF liveData = Null THEN Null ELSE liveData.earthquakes,
     weatherSeverity |->
         IF liveData = Null \/ liveData.weather = Null THEN 0
         ELSE liveData.weather.derived.weatherSeverityScore]

\* The four steps of performAnalysis.  Each step's value is bound once, as
\* the code stores it in state before the next step reads it.
Pipeline(siteData, liveData, doubleAbove) ==
    LET Outcome(analysis, ar, riskAssessment, recommendations) ==
            [analysisResults |-> analysis,
             riskAssessment |-> riskAssessment,
             recommendations |-> recommendations,
             outcome |-> getOutcomeAnalysis(ar.compositeFoS, recommendations)]
        Recommendations(analysis, ar, riskAssessment) ==
            CHOOSE r \in {Outcome(analysis, ar, riskAssessment, rec) :
                             rec \in {recommendMitigation(riskAssessment, ar,
                                                          doubleAbove)}} : TRUE
        Classification(analysis, ar) ==
            CHOOSE r \in {Recommendations(analysis, ar, ra) :
                             ra \in {classifyRisk(ar)}} : TRUE
        Analysis(analysis) ==
            CHOOSE r \in {Classification(analysis, ar) :
                             ar \in {InjectLiveData(analysis, liveData)}} : TRUE
    IN  CHOOSE r \in {Analysis(analysis) :
                         analysis \in {runComprehensiveAnalysis(siteData)}} : TRUE

\* The saturation each computation of runComprehensiveAnalysis receives.
SaturationsUsed(saturation, effectiveSaturation) ==
    [reported |-> effectiveSaturation,
     porePressure |-> effectiveSaturation,
     infiltration |-> saturation,
     sensitivityHigh |-> Min(100 * SC, MulDiv(effectiveSaturation, 11, 10)),
     sensitivityLow |-> MulDiv(effectiveSaturation, 9, 10)]

-----------------------------------------------------------------------------
(* Calls of the pure functions: the state records the last call            *)

NoCall == /\ op = "none"
          /\ args = Null
          /\ result = Null
          /\ prev = Null

BishopIdle == /\ b_pc = "idle"
              /\ b_slices = <<>>
              /\ b_maxIter = 0
              /\ b_iter = 0
              /\ b_fos_prev = Null
              /\ b_converged = FALSE
              /\ b_iterations = 0
              /\ b_hist = <<>>

MCIdle == /\ mc_pc = "idle"
          /\ mc_params = Null
          /\ mc_iterations = 0
          /\ mc_i = 0
          /\ mc_fosResults = <<>>
          /\ mc_failureCount = 0

\* The six fetches of fetchAllLiveData, in the order of its array.
Apis == {"weather", "historical", "elevation", "geocode", "earthquakes",
         "soil"}

AppIdle == /\ app_pc = "idle"
           /\ app_fetch = [api \in Apis |-> "none"]
           /\ app_timer = [api \in Apis |-> FALSE]
           /\ app_liveData = Null
           /\ app_liveDataFetched = FALSE
           /\ app_runs = 0

GAIdle == /\ ga_pc = "idle"
          /\ ga_params = Null
          /\ ga_step = 0
          /\ ga_F = 0
          /\ ga_saturationTime = Null
          /\ ga_history = <<>>
          /\ ga_capacity = <<>>

LoopsIdle == BishopIdle /\ MCIdle /\ AppIdle /\ GAIdle

-----------------------------------------------------------------------------
(* infiniteSlope called again and again on one site, the slope angle       *)
(* changing from call to call                                              *)

SlopeAngles == {3000, 10000, 20000, 30000, 40000, 44000, 45000, 46000,
                55000, 65000, 75000, 85000, 89000}
Saturations == {0, 50 * SC, 100 * SC}

SlopeSites ==
    {SlopeParams(SOIL_DATABASE[k].cohesion, SOIL_DATABASE[k].friction, 0,
                 SOIL_DATABASE[k].unitWeight, DEFAULT_DEPTH, sat) :
        k \in SoilKeys, sat \in Saturations}

CallInfiniteSlope(beta) ==
    /\ op' = "infiniteSlope"
    /\ args' = [args EXCEPT !.slopeAngle = beta]
    /\ result' = infiniteSlope(args')
    /\ prev' = [args |-> args, result |-> result]
    /\ UNCHANGED loopVars

SlopeInit ==
    /\ op = "infiniteSlope"
    /\ \E p \in SlopeSites, beta \in SlopeAngles :
          /\ args = [p EXCEPT !.slopeAngle = beta]
          /\ result = infiniteSlope(args)
    /\ prev = Null
    /\ LoopsIdle

SlopeNext == \E beta \in SlopeAngles : CallInfiniteSlope(beta)

SpecSlope == SlopeInit /\ [][SlopeNext]_vars

\* Two successive calls on the same site, the slope angle raised.
SlopeRaised ==
    /\ prev # Null
    /\ 0 < prev.args.slopeAngle
    /\ prev.args.slopeAngle < args.slopeAngle
    /\ args.slopeAngle < 90000

\* C4 as claimed: over the whole of (0, 90) degrees a steeper slope never has
\* a higher infinite-slope FoS.
C4_MonotoneWholeRange == SlopeRaised => result.fos <= prev.result.fos

\* C4 amended: for cohesion >= 0 the infinite-slope FoS is non-increasing in
\* the slope angle over (0, 45] degrees.
C4_MonotoneUpTo45 ==
    (SlopeRaised /\ args.slopeAngle <= 45000) => result.fos <= prev.result.fos

\* A steeper slope within (0, 45] whose FoS is strictly lower and uncapped.
C4_Witness ==
    /\ SlopeRaised
    /\ args.slopeAngle = 45000
    /\ prev.args.slopeAngle = 44000
    /\ result.fos < prev.result.fos
    /\ args.cohesion > 0

-----------------------------------------------------------------------------
(* bishopSimplified run one iteration of its outer loop at a time          *)

Slice(alpha, phi, c, width, weight, u) ==
    [id |-> 1, width |-> width, alpha |-> alpha, weight |-> weight,
     cohesion |-> c, phi |-> phi, pore_pressure |-> u]

\* Slice sets written by hand: a cohesionless, frictionless slice, a slice
\* whose pore pressure cancels its weight, a flat slice, a slice dipping
\* into the slope, and two slices of opposite inclination.
HandSlices ==
    { <<Slice(30000, 0, 0, SC, 10 * SC, 0)>>,
      <<Slice(30000, 20000, 0, SC, 10 * SC, 10 * SC)>>,
      <<Slice(0, 30000, 5 * SC, SC, 10 * SC, 0)>>,
      <<Slice(-60000, 40000, 5 * SC, SC, 10 * SC, 0)>>,
      <<Slice(40000, 30000, 2 * SC, SC, 20 * SC, SC),
        Slice(-10000, 30000, 2 * SC, SC, 10 * SC, SC)>> }

BishopAngles == {5000, 35000, 60000}

GeneratedSlices ==
    {generateSlices(SlopeParams(SOIL_DATABASE[k].cohesion,
                                SOIL_DATABASE[k].friction, beta,
                                SOIL_DATABASE[k].unitWeight, DEFAULT_DEPTH,
                                sat), N_SLICES) :
        k \in SoilKeys, beta \in BishopAngles, sat \in {0, 100 * SC}}

BishopSliceSets == HandSlices \cup GeneratedSlices
BishopMaxIters == {0, 1, 2, 3, BISHOP_MAX_ITER}

BishopCall(slices, maxIter) ==
    /\ b_pc = "idle"
    /\ b_slices' = slices
    /\ b_maxIter' = maxIter
    /\ b_fos_prev' = Num(BISHOP_GUESS)
    /\ b_converged' = FALSE
    /\ b_iterations' = 0
    /\ b_iter' = 0
    /\ b_hist' = <<Num(BISHOP_GUESS)>>
    /\ b_pc' = "loop"
    /\ op' = "bishopSimplified"
    /\ args' = [slices |-> slices, maxIter |-> maxIter]
    /\ UNCHANGED <<result, prev, mcVars, appVars, gaVars>>

\* One pass of the body of the for loop.
BishopStep ==
    /\ b_pc = "loop"
    /\ BishopGuard(b_iter, b_maxIter)
    /\ LET fos_new == BishopIter(b_slices, b_fos_prev)
       IN  /\ b_iterations' = b_iter + 1
           /\ b_fos_prev' = fos_new
           /\ b_hist' = Append(b_hist, fos_new)
           /\ IF BishopConverged(fos_new, b_fos_prev)
              THEN /\ b_converged' = TRUE
                   /\ b_pc' = "return"
                   /\ b_iter' = b_iter
              ELSE /\ b_iter' = b_iter + 1
                   /\ UNCHANGED <<b_converged, b_pc>>
    /\ UNCHANGED <<b_slices, b_maxIter, callVars, mcVars, appVars, gaVars>>

\* The loop guard fails.
BishopLoopEnd ==
    /\ b_pc = "loop"
    /\ ~BishopGuard(b_iter, b_maxIter)
    /\ b_pc' = "return"
    /\ UNCHANGED <<b_slices, b_maxIter, b_iter, b_fos_prev, b_converged,
                   b_iterations, b_hist, callVars, mcVars, appVars, gaVars>>

BishopReturn ==
    /\ b_pc = "return"
    /\ result' = BishopResult(b_fos_prev, b_iterations, b_converged)
    /\ b_pc' = "done"
    /\ UNCHANGED <<op, args, prev, b_slices, b_maxIter, b_iter, b_fos_prev,
                   b_converged, b_iterations, b_hist, mcVars, appVars, gaVars>>

BishopInit == NoCall /\ LoopsIdle

BishopNext ==
    \/ /\ b_pc = "idle"
       /\ \E slices \in BishopSliceSets, maxIter \in BishopMaxIters :
             BishopCall(slices, maxIter)
    \/ BishopStep
    \/ BishopLoopEnd
    \/ BishopReturn

SpecBishop == BishopInit /\ [][BishopNext]_vars

\* The i-th iteration met the tolerance.
MetTolerance(i) == BishopConverged(b_hist[i + 1], b_hist[i])

\* What a finished call must look like.
BishopDoneOK ==
    b_pc = "done" =>
        /\ b_hist[1] = Num(BISHOP_GUESS)
        /\ Len(b_hist) = result.iterations + 1
        /\ result.iterations <= b_maxIter
        /\ result.converged \in BOOLEAN
        /\ result.fos = FToFixed(b_hist[Len(b_hist)], 4)
        /\ \A i \in 1..(result.iterations - 1) : ~MetTolerance(i)
        /\ IF result.converged
           THEN result.iterations >= 1 /\ MetTolerance(result.iterations)
           ELSE /\ result.iterations = b_maxIter
                /\ result.iterations >= 1 => ~MetTolerance(result.iterations)

\* The steps a call under way can still take: what remains of maxIter, the
\* end of the loop and the return.
BishopStepsLeft ==
    CASE b_pc = "loop" -> Max(b_maxIter - b_iter, 0) + 2
      [] b_pc = "return" -> 1
      [] OTHER -> 0

\* C5: bishopSimplified starts from 1.5, performs at most maxIter iterations,
\* stops at the first one within the tolerance with converged = true and that
\* iterate, otherwise returns converged = false, iterations = maxIter and the
\* last iterate; every step of a call under way brings its return nearer.
C5_BishopTerminates ==
    /\ [](b_iter <= b_maxIter /\ BishopDoneOK)
    /\ [][b_pc # "idle" => BishopStepsLeft' < BishopStepsLeft]_vars

\* A call that converged after several iterations, before the limit.
C5_Witness ==
    /\ b_pc = "done"
    /\ result.converged
    /\ result.iterations > 3
    /\ result.iterations < b_maxIter

\* C6: a call that returns converged = false returns a finite FoS.
C6_NonConvergedFinite ==
    (b_pc = "done" /\ ~result.converged) => IsFinite(result.fos)

-----------------------------------------------------------------------------
(* runComprehensiveAnalysis on the site data of a form, then again with    *)
(* another soil key                                                        *)

AnalysisSoilTypes == SoilKeys \cup {"unknown_soil"}
AnalysisAngles == {5000, 35000, 60000}

\* What the form holds besides the soil key, the slope angle and the
\* saturation.
SiteContexts ==
    { [vegetationPct |-> 40 * SC, rainfallIntensity |-> 5 * SC,
       rainfallDuration |-> 24, houseDistance |-> 6 * SC,
       drainageCondition |-> "poor", cracks |-> FALSE, seepage |-> FALSE,
       pastLandslides |-> FALSE, construction |-> FALSE],
      [vegetationPct |-> 85 * SC, rainfallIntensity |-> 2 * SC,
       rainfallDuration |-> 6, houseDistance |-> 20 * SC,
       drainageCondition |-> "good", cracks |-> FALSE, seepage |-> FALSE,
       pastLandslides |-> TRUE, construction |-> FALSE],
      [vegetationPct |-> 10 * SC, rainfallIntensity |-> 20 * SC,
       rainfallDuration |-> 72, houseDistance |-> 2 * SC,
       drainageCondition |-> "blocked", cracks |-> TRUE, seepage |-> TRUE,
       pastLandslides |-> FALSE, construction |-> TRUE] }

SiteData(soilType, slopeAngle, saturation, ctx) ==
    [soilType |-> soilType, slopeAngle |-> slopeAngle,
     saturation |-> saturation, vegetationPct |-> ctx.vegetationPct,
     rainfallIntensity |-> ctx.rainfallIntensity,
     rainfallDuration |-> ctx.rainfallDuration,
     houseDistance |-> ctx.houseDistance,
     drainageCondition |-> ctx.drainageCondition, cracks |-> ctx.cracks,
     seepage |-> ctx.seepage, pastLandslides |-> ctx.pastLandslides,
     construction |-> ctx.construction]

Analyse(siteData) ==
    /\ op = "none"
    /\ op' = "runComprehensiveAnalysis"
    /\ args' = siteData
    /\ result' = runComprehensiveAnalysis(siteData)
    /\ prev' = Null
    /\ UNCHANGED loopVars

\* The same request with another soil key.
AnalyseOtherSoil(soilType) ==
    /\ op = "runComprehensiveAnalysis"
    /\ prev = Null
    /\ soilType # args.soilType
    /\ args' = [args EXCEPT !.soilType = soilType]
    /\ result' = runComprehensiveAnalysis(args')
    /\ prev' = [args |-> args, result |-> result]
    /\ UNCHANGED <<op, loopVars>>

AnalysisInit == NoCall /\ LoopsIdle

AnalysisNext ==
    \/ /\ op = "none"
       /\ \E soilType \in AnalysisSoilTypes, slopeAngle \in AnalysisAngles,
             saturation \in Saturations, ctx \in SiteContexts :
             Analyse(SiteData(soilType, slopeAngle, saturation, ctx))
    \/ \E soilType \in AnalysisSoilTypes : AnalyseOtherSoil(soilType)

SpecAnalysis == AnalysisInit /\ [][AnalysisNext]_vars

FosInRange(f) == IsNum(f) /\ 0 <= f.v /\ f.v <= 10 * SC

\* C3: every factor of safety of an analysis result - infiniteSlope.fos,
\* bishop.fos, janbu.fos and compositeFoS - lies in [0, 10].
C3_AllFosWithinCap ==
    op = "runComprehensiveAnalysis" =>
        /\ FosInRange(Num(result.infiniteSlope.fos))
        /\ FosInRange(result.bishop.fos)
        /\ FosInRange(Num(result.janbu.fos))
        /\ FosInRange(result.compositeFoS)

\* C8: an analysis requested with a soil key outside the catalog returns a
\* result that differs from the result of the same request made with
\* soilType = 'clayey_sand'.
C8_SubstitutionDetectable ==
    (/\ op = "runComprehensiveAnalysis"
     /\ prev # Null
     /\ prev.args.soilType \notin SoilKeys
     /\ args.soilType = "clayey_sand") => result # prev.result

-----------------------------------------------------------------------------
(* monteCarloSimulation run one iteration of its loop at a time            *)

MaxMcIter == 3

MCIterationCounts == (-1)..MaxMcIter

\* The draws of one iteration: all at the mean, all adverse, all favourable.
MCDraws == {<<0, 0, 0, 0>>, <<-1500, -1000, 1000, 1500>>,
            <<1500, 1000, -1000, -1500>>}

MCParams ==
    {SlopeParams(SOIL_DATABASE[k].cohesion, SOIL_DATABASE[k].friction, 35000,
                 SOIL_DATABASE[k].unitWeight, DEFAULT_DEPTH, 50 * SC) :
        k \in {"clayey_sand", "weathered_rock"}}

MCCall(params, iterations) ==
    /\ mc_pc = "idle"
    /\ mc_params' = params
    /\ mc_iterations' = iterations
    /\ mc_fosResults' = <<>>
    /\ mc_failureCount' = 0
    /\ mc_i' = 0
    /\ mc_pc' = "loop"
    /\ op' = "monteCarloSimulation"
    /\ args' = [params |-> params, iterations |-> iterations]
    /\ UNCHANGED <<result, prev, bishopVars, appVars, gaVars>>

\* One pass of the body of the for loop.
MCIterate(z) ==
    /\ mc_pc = "loop"
    /\ mc_i < mc_iterations
    /\ LET fos == MCSample(mc_params, z)
       IN  /\ mc_fosResults' = Append(mc_fosResults, fos)
           /\ mc_failureCount' =
                  IF fos < SC THEN mc_failureCount + 1 ELSE mc_failureCount
    /\ mc_i' = mc_i + 1
    /\ UNCHANGED <<mc_pc, mc_params, mc_iterations, callVars, bishopVars,
                   appVars, gaVars>>

\* The loop guard fails: the statistics, the histogram and the return.
MCReturn ==
    /\ mc_pc = "loop"
    /\ ~(mc_i < mc_iterations)
    /\ result' = MCSummary(mc_fosResults, mc_failureCount, mc_iterations)
    /\ mc_pc' = "done"
    /\ UNCHANGED <<op, args, prev, mc_params, mc_iterations, mc_i,
                   mc_fosResults, mc_failureCount, bishopVars, appVars, gaVars>>

MCInit == NoCall /\ LoopsIdle

MCNext ==
    \/ \E params \in MCParams, iterations \in MCIterationCounts :
          MCCall(params, iterations)
    \/ \E z \in MCDraws : MCIterate(z)
    \/ MCReturn

SpecMC == MCInit /\ [][MCNext]_vars

\* The samples counted in the buckets of a histogram.
BucketTotal(histogram) ==
    SeqSum([i \in 1..MC_BINS |-> histogram[i - 1]], MC_BINS)

\* C28: the histogram of a Monte Carlo run of one iteration or more has 40
\* non-negative bucket counts that sum to the iteration count.
C28_HistogramPartitions ==
    (op = "monteCarloSimulation" /\ mc_pc = "done" /\ mc_iterations >= 1) =>
        /\ DOMAIN result.histogram = 0..(MC_BINS - 1)
        /\ \A b \in DOMAIN result.histogram : result.histogram[b] >= 0
        /\ BucketTotal(result.histogram) = mc_iterations

\* C7: a call with a zero or negative iteration count ends in an
\* InvalidConfiguration error and returns no summary.
C7_NonPositiveIterationsRejected ==
    (mc_pc = "done" /\ mc_iterations <= 0) =>
        /\ "error" \in DOMAIN result
        /\ result.error = "InvalidConfiguration"

-----------------------------------------------------------------------------
(* classifyRisk and scoreToClassification called on their own              *)

AnalysisResults ==
    [compositeFoS : {30000, 90000, 110000, 130000, 170000, 250000, 1200000},
     rainfallThreshold :
         {[level |-> 0, exceedance_pct_regional |-> 0],
          [level |-> 1, exceedance_pct_regional |-> 80 * SC],
          [level |-> 3, exceedance_pct_regional |-> 400 * SC]},
     vegetation : {[vegetationPct |-> 0], [vegetationPct |-> 90 * SC]},
     foundation :
         {Null,
          [isSetbackSafe |-> TRUE, actualSetback |-> 20 * SC,
           effectiveSetback |-> 3 * SC],
          [isSetbackSafe |-> FALSE, actualSetback |-> 2 * SC,
           effectiveSetback |-> 10 * SC]},
     riskModifier : {-2 * SC, 0, 60000},
     fieldObservations :
         {[cracks |-> b, seepage |-> b, pastLandslides |-> b,
           construction |-> b] : b \in BOOLEAN},
     slopeAngle : {10000, 50000},
     effectiveSaturation : {0, 100 * SC},
     liveEarthquakes :
         {Null,
          [totalEvents |-> 80, maxMagnitude |-> 650000,
           nearestDistance |-> 20 * SC]},
     weatherSeverity : {0, 100 * SC}]

Scores == {-5 * SC, 0, 1999900, 20 * SC, 3999900, 40 * SC, 5999900, 60 * SC,
           7999900, 80 * SC, 100 * SC, 150 * SC}

Classify(ar) ==
    /\ op = "none"
    /\ op' = "classifyRisk"
    /\ args' = ar
    /\ result' = classifyRisk(ar)
    /\ UNCHANGED <<prev, loopVars>>

ClassifyLegacy(ar) ==
    /\ op = "none"
    /\ op' = "classifyRiskLegacy"
    /\ args' = ar
    /\ result' = classifyRiskLegacy(ar)
    /\ UNCHANGED <<prev, loopVars>>

CallScoreToClassification(score) ==
    /\ op \in {"none", "scoreToClassification"}
    /\ op' = "scoreToClassification"
    /\ args' = score
    /\ result' = scoreToClassification(score)
    /\ prev' = IF op = "none" THEN Null
               ELSE [args |-> args, result |-> result]
    /\ UNCHANGED loopVars

RiskInit == NoCall /\ LoopsIdle

RiskNext ==
    \/ op = "none" /\ \E ar \in AnalysisResults : Classify(ar)
    \/ op = "none" /\ \E ar \in AnalysisResults : ClassifyLegacy(ar)
    \/ \E score \in Scores : CallScoreToClassification(score)

SpecRisk == RiskInit /\ [][RiskNext]_vars

\* C1: the compositeScore returned by classifyRisk lies in [0, 100].
C1_CompositeScoreInRange ==
    op \in {"classifyRisk", "classifyRiskLegacy"} =>
        (0 <= result.compositeScore /\ result.compositeScore <= 100 * SC)

\* C2: scoreToClassification returns exactly the tier of the lower-inclusive
\* breakpoints 20/40/60/80 - 79.999 is HIGH, 80.0 is CRITICAL - and the tier
\* code never decreases when the score grows.
C2_TiersLowerInclusive ==
    op = "scoreToClassification" =>
        /\ result.code \in 1..5
        /\ result.level = TierLevels[result.code]
        /\ (result.code = 1 <=> args < 20 * SC)
        /\ (result.code = 2 <=> (20 * SC <= args /\ args < 40 * SC))
        /\ (result.code = 3 <=> (40 * SC <= args /\ args < 60 * SC))
        /\ (result.code = 4 <=> (60 * SC <= args /\ args < 80 * SC))
        /\ (result.code = 5 <=> args >= 80 * SC)
        /\ (args = 7999900 => result.level = "HIGH")
        /\ (args = 80 * SC => result.level = "CRITICAL")
        /\ (prev # Null /\ prev.args <= args) =>
               prev.result.code <= result.code

\* 79.999 classified HIGH right after 80.0 was classified CRITICAL.
C2_Witness ==
    /\ op = "scoreToClassification"
    /\ args = 7999900
    /\ result.level = "HIGH"
    /\ prev # Null
    /\ prev.args = 80 * SC
    /\ prev.result.level = "CRITICAL"


-----------------------------------------------------------------------------
(* recommendMitigation on a risk assessment and an analysis result, and    *)
(* calculateAggregates on hand-made recommendations                        *)

MaxRecs == 3

\* classification.code 0 is a classification without a code.
RiskAssessments == [classification : [code : 0..5]]

\* A foundation of Null is an analysis result without a foundation check.
MitigationInputs ==
    [compositeFoS : {50000, 85000, 110000, 125000, 150000},
     slopeAngle : {20000, 35000, 45000, 55000},
     effectiveSaturation : {20 * SC, 50 * SC, 80 * SC},
     vegetation : [vegetationPct : {10 * SC, 35 * SC, 50 * SC, 80 * SC}],
     foundation :
         {Null,
          [isSetbackSafe |-> TRUE, actualSetback |-> 10 * SC,
           effectiveSetback |-> 3 * SC],
          [isSetbackSafe |-> FALSE, actualSetback |-> 2 * SC,
           effectiveSetback |-> 5 * SC]},
     rainfallThreshold : [level : {0, 1}],
     fieldObservations : [seepage : BOOLEAN, pastLandslides : BOOLEAN]]

HandMeasures == {"surface_drains", "vetiver_grass", "gabion_walls",
                 "soil_nailing", "rcc_walls"}

HandLists == UNION {[1..n -> HandMeasures] : n \in 0..MaxRecs}

\* Recommendations whose short-term bucket holds the measures of keys.
Recommended(keys) ==
    [EmptyRecommendations EXCEPT !.shortTerm =
        [i \in DOMAIN keys |->
            [name |-> MITIGATION_DB[keys[i]].name,
             riskReduction |-> MITIGATION_DB[keys[i]].riskReduction,
             priority |-> "HIGH", reason |-> "selected"]]]

Reorderings(keys) ==
    {[i \in DOMAIN keys |-> keys[p[i]]] : p \in Permutations(DOMAIN keys)}

Recommend(riskAssessment, analysisResults, doubleAbove) ==
    /\ op = "none"
    /\ op' = "recommendMitigation"
    /\ args' = <<riskAssessment, analysisResults>>
    /\ result' = recommendMitigation(riskAssessment, analysisResults,
                                     doubleAbove)
    /\ UNCHANGED <<prev, loopVars>>

CallCalculateAggregates(keys, doubleAbove) ==
    /\ op = "none"
    /\ op' = "calculateAggregates"
    /\ args' = keys
    /\ result' = calculateAggregates(Recommended(keys), doubleAbove)
    /\ UNCHANGED <<prev, loopVars>>

\* The same measures selected in another order.
CallCalculateAggregatesReordered(doubleAbove) ==
    /\ op = "calculateAggregates"
    /\ prev = Null
    /\ \E keys \in Reorderings(args) :
          /\ args' = keys
          /\ result' = calculateAggregates(Recommended(keys), doubleAbove)
    /\ prev' = [args |-> args, result |-> result]
    /\ UNCHANGED <<op, loopVars>>

MitigationInit == NoCall /\ LoopsIdle

MitigationNext ==
    \/ op = "none" /\ \E ra \in RiskAssessments, ar \in MitigationInputs,
                         doubleAbove \in BOOLEAN : Recommend(ra, ar, doubleAbove)
    \/ op = "none" /\ \E keys \in HandLists, doubleAbove \in BOOLEAN :
                         CallCalculateAggregates(keys, doubleAbove)
    \/ \E doubleAbove \in BOOLEAN : CallCalculateAggregatesReordered(doubleAbove)

SpecMitigation == MitigationInit /\ [][MitigationNext]_vars

MitigationCalled == op \in {"recommendMitigation", "calculateAggregates"}

\* C9: after recommendMitigation no measure appears twice in priorityOrder,
\* that is, across the immediate, short-term and long-term buckets.
C9_NoMeasureTwice ==
    op = "recommendMitigation" =>
        \A i, j \in DOMAIN result.priorityOrder :
            i # j => result.priorityOrder[i].name # result.priorityOrder[j].name

\* 100 * (1 - product), rounded to one decimal as a decimal number (a tie goes
\* up), in tenths.
ExactRoundedTenths(allRecs) ==
    LET d == CombinedRR(allRecs, Len(allRecs))
    IN  IF Digit(d, 3) % 10 >= 5 THEN 999 - Floor1000(d)
        ELSE 1000 - Floor1000(d)

C27_LevelOfReportedScore ==
    op \in {"classifyRisk", "classifyRiskLegacy"} =>
        LET score == result.compositeScore
            level == result.classification.level
        IN  /\ level = "CRITICAL" <=> score >= 80 * SC
            /\ level = "HIGH" <=> (60 * SC <= score /\ score < 80 * SC)
            /\ level = "MEDIUM" <=> (40 * SC <= score /\ score < 60 * SC)
            /\ level = "LOW" <=> (20 * SC <= score /\ score < 40 * SC)
            /\ level = "VERY LOW" <=> score < 20 * SC

\* C30: in the recommendations of recommendMitigation every entry of the
\* immediate bucket has priority CRITICAL and no entry of the short-term or
\* the long-term bucket has.
C30_TimeframeAgreesWithPriority ==
    op = "recommendMitigation" =>
        /\ \A i \in DOMAIN result.immediate :
              result.immediate[i].priority = "CRITICAL"
        /\ \A i \in DOMAIN result.shortTerm :
              result.shortTerm[i].priority \in {"HIGH", "MEDIUM", "LOW"}
        /\ \A i \in DOMAIN result.longTerm :
              result.longTerm[i].priority \in {"HIGH", "MEDIUM", "LOW"}

\* Gabion walls in the short-term and in the immediate bucket, with entries
\* in all three buckets.
C30_Witness ==
    /\ op = "recommendMitigation"
    /\ \E i \in DOMAIN result.immediate, j \in DOMAIN result.shortTerm :
          /\ result.immediate[i].name = MITIGATION_DB.gabion_walls.name
          /\ result.shortTerm[j].name = MITIGATION_DB.gabion_walls.name
          /\ result.immediate[i].priority = "CRITICAL"
          /\ result.shortTerm[j].priority = "HIGH"
    /\ Len(result.immediate) >= 3
    /\ Len(result.longTerm) >= 1

\* C19: whenever fieldObservations.seepage is true, the immediate bucket
\* holds the catch drains with priority CRITICAL, whatever else was
\* recommended.
C19_SeepageCatchDrains ==
    (op = "recommendMitigation" /\ args[2].fieldObservations.seepage) =>
        \E i \in DOMAIN result.immediate :
            /\ result.immediate[i].name = MITIGATION_DB.catch_drains.name
            /\ result.immediate[i].priority = "CRITICAL"

C19_Witness ==
    /\ op = "recommendMitigation"
    /\ args[2].fieldObservations.seepage
    /\ args[1].classification.code = 5
    /\ Len(result.immediate) >= 3
    /\ result.immediate[1].name = MITIGATION_DB.catch_drains.name
    /\ result.immediate[1].priority = "CRITICAL"
    /\ Len(result.shortTerm) >= 1

-----------------------------------------------------------------------------
(* The probabilities of the pipeline: monteCarloSimulation,                *)
(* calculateProbabilityIndex and getOutcomeAnalysis                        *)

\* Factors of safety from 0 to 3 in steps of 0.05.
ProbabilityFoS == {k * 5000 : k \in 0..60} \cup {43100}

CallCalculateProbabilityIndex(fos, mcProbability, compositeScore) ==
    /\ op' = "calculateProbabilityIndex"
    /\ args' = [fos |-> fos, mcProbability |-> mcProbability,
                compositeScore |-> compositeScore]
    /\ result' = calculateProbabilityIndex(fos, mcProbability, compositeScore)
    /\ UNCHANGED <<prev, loopVars>>

CallGetOutcomeAnalysis(currentFoS, keys, doubleAbove) ==
    /\ op' = "getOutcomeAnalysis"
    /\ args' = [currentFoS |-> currentFoS, keys |-> keys]
    /\ result' = getOutcomeAnalysis(currentFoS,
                     calculateAggregates(Recommended(keys), doubleAbove))
    /\ UNCHANGED <<prev, loopVars>>

ProbabilityNext ==
    \/ op = "none" /\ \E params \in MCParams, iterations \in MCIterationCounts :
                         MCCall(params, iterations)
    \/ \E z \in MCDraws : MCIterate(z)
    \/ MCReturn
    \/ op = "none" /\ \E fos \in ProbabilityFoS,
                         mcProbability \in {NaN, Num(3750000), Num(100 * SC)},
                         compositeScore \in {-760000, 0, 5240000, 100 * SC} :
                         CallCalculateProbabilityIndex(fos, mcProbability,
                                                       compositeScore)
    \/ op = "none" /\ \E currentFoS \in ProbabilityFoS, keys \in HandLists,
                         doubleAbove \in BOOLEAN :
                         CallGetOutcomeAnalysis(currentFoS, keys, doubleAbove)

SpecProbability == MCInit /\ [][ProbabilityNext]_vars

\* C11: the failure probabilities getOutcomeAnalysis reports before and after
\* mitigation are the deterministic probabilities calculateProbabilityIndex
\* derives from the same factors of safety.
C11_SameProbabilityFunction ==
    op = "getOutcomeAnalysis" =>
        /\ ToFixed(result.before.failureProbability, 3)
               = calculateProbabilityIndex(result.before.fos, NaN, 0).deterministic
        /\ ToFixed(result.after.failureProbability, 3)
               = calculateProbabilityIndex(result.after.fos, NaN, 0).deterministic

\* C29: the outcome analysis never projects a worse outcome than the
\* starting point: the FoS after mitigation is no lower, the failure
\* probability no higher and the probability reduction not negative.
C29_NeverWorse ==
    op = "getOutcomeAnalysis" =>
        /\ result.after.fos >= result.before.fos
        /\ result.after.failureProbability <= result.before.failureProbability
        /\ result.improvement.probabilityReduction >= 0

InUnitInterval(f) == IsNum(f) /\ f.v >= 0 /\ f.v <= SC

\* C14: every probability the pipeline emits lies in [0, 1]: the Monte Carlo
\* probability of failure, the five fields of the probability index and the
\* failure probabilities before and after mitigation.
C14_ProbabilitiesInUnitInterval ==
    /\ mc_pc = "done" => InUnitInterval(result.probability_of_failure)
    /\ op = "calculateProbabilityIndex" =>
           \A f \in {"deterministic", "stochastic", "scoreBased", "combined",
                     "annualProbability"} : InUnitInterval(Num(result[f]))
    /\ op = "getOutcomeAnalysis" =>
           /\ InUnitInterval(Num(result.before.failureProbability))
           /\ InUnitInterval(Num(result.after.failureProbability))


-----------------------------------------------------------------------------
(* The pipeline run on one site, with and without live data                *)

\* The site of the end-to-end scenario; what it does not name is at its
\* default.
ScenarioSite ==
    SiteData("clayey_sand", 40000, 70 * SC,
             [vegetationPct |-> 20 * SC, rainfallIntensity |-> 25 * SC,
              rainfallDuration |-> 12, houseDistance |-> 6 * SC,
              drainageCondition |-> "poor", cracks |-> FALSE,
              seepage |-> TRUE, pastLandslides |-> FALSE,
              construction |-> FALSE])

PipelineSites ==
    {ScenarioSite} \cup
    {SiteData(soilType, slopeAngle, saturation, ctx) :
        soilType \in {"clayey_sand", "silty_clay", "weathered_rock"},
        slopeAngle \in {20000, 40000, 60000},
        saturation \in {-10 * SC, 30 * SC, 70 * SC, 150 * SC},
        ctx \in SiteContexts}

\* No live data; live data of which every fetch failed; weather and
\* earthquakes fetched.
LiveDataSets ==
    {Null,
     [weather |-> Null, earthquakes |-> Null],
     [weather |-> [derived |-> [weatherSeverityScore |-> 100 * SC]],
      earthquakes |-> [totalEvents |-> 0, maxMagnitude |-> 0,
                       nearestDistance |-> 500 * SC]]}

RunPipeline(siteData, liveData, doubleAbove) ==
    /\ op' = "performAnalysis"
    /\ args' = [siteData |-> siteData, liveData |-> liveData]
    /\ result' = Pipeline(siteData, liveData, doubleAbove)
    /\ UNCHANGED <<prev, loopVars>>

PipelineNext ==
    op = "none" /\ \E siteData \in PipelineSites, liveData \in LiveDataSets,
                      doubleAbove \in BOOLEAN :
                      RunPipeline(siteData, liveData, doubleAbove)

SpecPipeline == AnalysisInit /\ [][PipelineNext]_vars

DrainageNames ==
    {MITIGATION_DB[k].name :
        k \in {"surface_drains", "horizontal_drains", "toe_drains",
               "catch_drains"}}

\* C12: the scenario site yields compositeFoS < 1.2, a classification of
\* HIGH or CRITICAL and a drainage recommendation of priority CRITICAL or
\* HIGH, with or without live data.
C12_ScenarioOutcome ==
    (op = "performAnalysis" /\ args.siteData = ScenarioSite) =>
        /\ IsNum(result.analysisResults.compositeFoS)
        /\ result.analysisResults.compositeFoS.v < 120000
        /\ result.riskAssessment.classification.level \in {"HIGH", "CRITICAL"}
        /\ \E i \in DOMAIN result.recommendations.priorityOrder :
              LET r == result.recommendations.priorityOrder[i]
              IN  r.name \in DrainageNames /\ r.priority \in {"CRITICAL", "HIGH"}

C12_Witness ==
    /\ op = "performAnalysis"
    /\ args.siteData = ScenarioSite
    /\ args.liveData = Null
    /\ result.analysisResults.compositeFoS.v < SC
    /\ result.riskAssessment.compositeScore = 7030000
    /\ result.riskAssessment.classification.level = "HIGH"
    /\ \E i \in DOMAIN result.recommendations.immediate :
          /\ result.recommendations.immediate[i].name
                 = MITIGATION_DB.catch_drains.name
          /\ result.recommendations.immediate[i].priority = "CRITICAL"

\* C15: the saturation every computation of one analysis uses lies in
\* [0, 100], whatever saturation and drainage condition were supplied.
C15_SaturationClamped ==
    op = "performAnalysis" =>
        LET used == SaturationsUsed(args.siteData.saturation,
                                    result.analysisResults.effectiveSaturation)
        IN  \A c \in DOMAIN used : used[c] >= 0 /\ used[c] <= 100 * SC

-----------------------------------------------------------------------------
(* Application: one analysis request, from runAnalysis to the stored       *)
(* result.  The cache of the API service is empty when the page loads and  *)
(* a request fetches only while state.liveDataFetched is false, so every   *)
(* fetch of a request goes to the network.  fetchElevation's two requests  *)
(* in sequence are one fetch here.                                         *)

\* What a fulfilled fetch contributes to state.liveData.
Payload(api) ==
    IF api = "weather" THEN [derived |-> [weatherSeverityScore |-> 100 * SC]]
    ELSE IF api = "earthquakes"
    THEN [totalEvents |-> 0, maxMagnitude |-> 0, nearestDistance |-> 500 * SC]
    ELSE [k |-> "data"]

\* The button handler: fetch first when no live data was fetched yet,
\* otherwise schedule performAnalysis.
runAnalysis ==
    /\ app_pc \in {"idle", "done"}
    /\ IF ~app_liveDataFetched
       THEN /\ app_pc' = "fetching"
            /\ app_fetch' = [api \in Apis |-> "fetch"]
            /\ app_timer' = [api \in Apis |-> TRUE]
       ELSE /\ app_pc' = "timer"
            /\ UNCHANGED <<app_fetch, app_timer>>
    /\ app_runs' = 0
    /\ op' = "runAnalysis"
    /\ args' = Null
    /\ result' = Null
    /\ UNCHANGED <<prev, app_liveData, app_liveDataFetched, bishopVars,
                   mcVars, gaVars>>

\* safeFetch: fetch() resolves with a response of status ok; the abort timer
\* is cleared and the body is awaited.
FetchResolves(api) ==
    /\ app_pc = "fetching"
    /\ app_fetch[api] = "fetch"
    /\ app_fetch' = [app_fetch EXCEPT ![api] = "json"]
    /\ app_timer' = [app_timer EXCEPT ![api] = FALSE]
    /\ UNCHANGED <<callVars, app_pc, app_liveData, app_liveDataFetched,
                   app_runs, bishopVars, mcVars, gaVars>>

\* safeFetch: fetch() rejects (a network error or the abort of the timer) or
\* the status is not ok; the fetch function catches the error and returns
\* null.
FetchRejects(api) ==
    /\ app_pc = "fetching"
    /\ app_fetch[api] = "fetch"
    /\ app_fetch' = [app_fetch EXCEPT ![api] = "null"]
    /\ app_timer' = [app_timer EXCEPT ![api] = FALSE]
    /\ UNCHANGED <<callVars, app_pc, app_liveData, app_liveDataFetched,
                   app_runs, bishopVars, mcVars, gaVars>>

\* safeFetch: response.json() settles, with the parsed body or with an
\* error that the fetch function turns into null.
JsonSettles(api, fulfilled) ==
    /\ app_pc = "fetching"
    /\ app_fetch[api] = "json"
    /\ app_fetch' = [app_fetch EXCEPT
                        ![api] = IF fulfilled THEN "value" ELSE "null"]
    /\ UNCHANGED <<callVars, app_pc, app_timer, app_liveData,
                   app_liveDataFetched, app_runs, bishopVars, mcVars, gaVars>>

\* Promise.allSettled settles when its six promises have; the then-callback
\* of runAnalysis stores the result and calls performAnalysis, which sets
\* its 300 ms timer.
fetchAllLiveData ==
    /\ app_pc = "fetching"
    /\ \A api \in Apis : app_fetch[api] \in {"value", "null"}
    /\ app_liveData' = [api \in Apis |-> IF app_fetch[api] = "value"
                                         THEN Payload(api) ELSE Null]
    /\ app_liveDataFetched' = TRUE
    /\ app_pc' = "timer"
    /\ UNCHANGED <<callVars, app_fetch, app_timer, app_runs, bishopVars,
                   mcVars, gaVars>>

\* The timer callback of performAnalysis: the four steps of the pipeline.
performAnalysis(siteData, doubleAbove) ==
    /\ app_pc = "timer"
    /\ op' = "performAnalysis"
    /\ args' = [siteData |-> siteData, liveData |-> app_liveData]
    /\ result' = Pipeline(siteData, app_liveData, doubleAbove)
    /\ app_runs' = app_runs + 1
    /\ app_pc' = "done"
    /\ UNCHANGED <<prev, app_fetch, app_timer, app_liveData,
                   app_liveDataFetched, bishopVars, mcVars, gaVars>>

AppNext ==
    \/ runAnalysis
    \/ app_pc = "fetching" /\ \E api \in Apis : FetchResolves(api)
    \/ app_pc = "fetching" /\ \E api \in Apis : FetchRejects(api)
    \/ app_pc = "fetching" /\ \E api \in Apis, fulfilled \in BOOLEAN :
                                  JsonSettles(api, fulfilled)
    \/ fetchAllLiveData
    \/ app_pc = "timer" /\ \E doubleAbove \in BOOLEAN :
                              performAnalysis(ScenarioSite, doubleAbove)

SpecApp == AnalysisInit /\ [][AppNext]_vars

\* C13: a request never waits on something that no timer bounds, runs the
\* pipeline exactly once and stores a risk assessment, with the no-data
\* defaults of the seismic and the weather component when those fetches
\* brought nothing.  A fetch that awaits its body with the abort timer
\* cleared ends only when the server ends the body or the connection.
C13_RequestCompletes ==
    /\ \A api \in Apis :
          (app_pc = "fetching" /\ app_fetch[api] \in {"fetch", "json"})
              => app_timer[api]
    /\ app_pc = "done" =>
          /\ app_runs = 1
          /\ result.riskAssessment.classification.level
                 \in {"LOW", "MODERATE", "HIGH", "CRITICAL"}
          /\ app_liveData.earthquakes = Null
                 => result.riskAssessment.components.seismic = 20 * SC
          /\ app_liveData.weather = Null
                 => result.riskAssessment.components.weather = 0

-----------------------------------------------------------------------------
(* monteCarloSimulation after its loop: the statistics of the collected    *)
(* results, for the same results collected in another order                *)

MaxResults == 4

FosLists ==
    UNION {[1..n -> {99950, 99970, 120000}] : n \in 1..MaxResults}

\* The failureCount the loop leaves for these results.
FailureCount(fosResults) ==
    Cardinality({i \in DOMAIN fosResults : fosResults[i] < SC})

Aggregate(fosResults) ==
    /\ op' = "monteCarloSimulation"
    /\ args' = fosResults
    /\ result' = MCSummary(fosResults, FailureCount(fosResults),
                           Len(fosResults))
    /\ UNCHANGED <<prev, loopVars>>

\* The same iterations evaluated in another order.
AggregateReordered ==
    /\ op = "monteCarloSimulation"
    /\ prev = Null
    /\ \E fosResults \in Reorderings(args) :
          /\ args' = fosResults
          /\ result' = MCSummary(fosResults, FailureCount(fosResults),
                                 Len(fosResults))
    /\ prev' = [args |-> args, result |-> result]
    /\ UNCHANGED <<op, loopVars>>

AggregateNext ==
    \/ op = "none" /\ \E fosResults \in FosLists : Aggregate(fosResults)
    \/ AggregateReordered

SpecAggregate == MCInit /\ [][AggregateNext]_vars

\* C16: the statistics depend only on the multiset of the per-iteration
\* FoS values: the same values in another order give the same mean,
\* standard deviation, minimum, maximum, probability of failure and
\* histogram.
C16_OrderIndependent ==
    (op = "monteCarloSimulation" /\ prev # Null) =>
        \A f \in {"mean_fos", "std_fos", "min_fos", "max_fos",
                  "probability_of_failure", "histogram"} :
            result[f] = prev.result[f]

-----------------------------------------------------------------------------
(* checkIDThreshold called on its own                                      *)

CallCheckIDThreshold(intensity_mmhr, duration_hr) ==
    /\ op' = "checkIDThreshold"
    /\ args' = [intensity |-> intensity_mmhr, duration |-> duration_hr]
    /\ result' = checkIDThreshold(intensity_mmhr, duration_hr)
    /\ UNCHANGED <<prev, loopVars>>

\* A second call for the same duration and a higher intensity.
CallCheckIDThresholdRaised(intensity_mmhr) ==
    /\ op = "checkIDThreshold"
    /\ prev = Null
    /\ intensity_mmhr > args.intensity
    /\ args' = [args EXCEPT !.intensity = intensity_mmhr]
    /\ result' = checkIDThreshold(intensity_mmhr, args.duration)
    /\ prev' = [args |-> args, result |-> result]
    /\ UNCHANGED <<op, loopVars>>

RainfallNext ==
    \/ op = "none" /\ \E k \in 0..64, duration_hr \in RainDurations :
                         CallCheckIDThreshold(k * (SC \div 4), duration_hr)
    \/ \E k \in 0..64 : CallCheckIDThresholdRaised(k * (SC \div 4))

SpecRainfall == AnalysisInit /\ [][RainfallNext]_vars

\* C17: with T_r = 9.0 * D^-0.25, the level is 0 iff I <= 0.7 * T_r, 1 iff
\* 0.7 * T_r < I <= T_r, and 2 or 3 only if I > T_r; for a fixed D a higher
\* I never gives a lower level.
C17_RegionalCurve ==
    op = "checkIDThreshold" =>
        LET I == args.intensity
            T_r == MulDiv(900000, PowHimalaya[args.duration], TS)
            caution == MulDiv(T_r, 7, 10)
        IN  /\ result.level = 0 <=> I <= caution
            /\ result.level = 1 <=> (caution < I /\ I <= T_r)
            /\ result.level \in {2, 3} => I > T_r
            /\ prev # Null => result.level >= prev.result.level

-----------------------------------------------------------------------------
(* D. greenAmptInfiltration, one action per pass of its loop.  Lengths are *)
(* in mm and rates in mm/hr, both times SC: K = 1e-5 m/s is 36 mm/hr, the  *)
(* initial F = 0.001 m is 1 mm, and one step of dt = 60 s adds a sixtieth  *)
(* of the hourly rate.                                                     *)

GA_DT == 60

\* The object greenAmptInfiltration destructures, its defaults filled in.
GreenAmptParams(K, delta_theta, rainfall_rate, duration) ==
    [K |-> K, psi |-> 200 * SC, delta_theta |-> delta_theta,
     rainfall_rate |-> rainfall_rate, duration |-> duration]

GACall(params) ==
    /\ ga_pc = "idle"
    /\ ga_params' = params
    /\ ga_step' = 0
    /\ ga_F' = SC
    /\ ga_saturationTime' = Null
    /\ ga_history' = <<>>
    /\ ga_capacity' = <<>>
    /\ ga_pc' = "loop"
    /\ op' = "greenAmptInfiltration"
    /\ args' = params
    /\ UNCHANGED <<result, prev, bishopVars, mcVars, appVars>>

\* One pass of the body of the for loop.
GAStep ==
    /\ ga_pc = "loop"
    /\ ga_step < (ga_params.duration * 3600) \div GA_DT
    /\ LET f_capacity ==
               ga_params.K
               + MulDiv(ga_params.K,
                        Mul(ga_params.psi, ga_params.delta_theta), ga_F)
           f_actual == Min(f_capacity, ga_params.rainfall_rate)
       IN  /\ ga_F' = ga_F + f_actual \div (3600 \div GA_DT)
           /\ ga_history' =
                  IF ga_step % 60 = 0
                  THEN Append(ga_history,
                              [time_hr |-> (ga_step * GA_DT * SC) \div 3600,
                               infiltration_rate_mmhr |-> f_actual,
                               capacity_mmhr |-> f_capacity])
                  ELSE ga_history
           /\ ga_saturationTime' =
                  IF f_capacity <= ga_params.rainfall_rate
                     /\ ga_saturationTime = Null
                  THEN Num((ga_step * GA_DT * SC) \div 3600)
                  ELSE ga_saturationTime
           /\ ga_capacity' = Append(ga_capacity, f_capacity)
    /\ ga_step' = ga_step + 1
    /\ UNCHANGED <<ga_pc, ga_params, callVars, bishopVars, mcVars, appVars>>

\* The loop guard fails: the returned object.  saturationTime ? ... : null
\* takes the second branch for null and for 0.
GAReturn ==
    /\ ga_pc = "loop"
    /\ ~(ga_step < (ga_params.duration * 3600) \div GA_DT)
    /\ result' =
           [cumulative_infiltration_mm |-> ToFixed(ga_F, 2),
            final_rate_mmhr |->
                IF ga_history = <<>> THEN 0
                ELSE ToFixed(ga_history[Len(ga_history)].infiltration_rate_mmhr,
                             3),
            saturation_time_hr |->
                IF ga_saturationTime # Null /\ ga_saturationTime.v # 0
                THEN FToFixed(ga_saturationTime, 1)
                ELSE Null,
            runoff_onset |-> ga_saturationTime # Null,
            history |-> ga_history]
    /\ ga_pc' = "done"
    /\ UNCHANGED <<op, args, prev, ga_params, ga_step, ga_F, ga_saturationTime,
                   ga_history, ga_capacity, bishopVars, mcVars, appVars>>

GreenAmptNext ==
    \/ ga_pc = "idle"
       /\ \E K \in {36000, 36 * SC}, delta_theta \in {0, 25000},
             rainfall_rate \in {0, 10 * SC, 40 * SC, 2000 * SC},
             duration \in 0..2 :
             GACall(GreenAmptParams(K, delta_theta, rainfall_rate, duration))
    \/ GAStep
    \/ GAReturn

SpecGreenAmpt == AnalysisInit /\ [][GreenAmptNext]_vars

\* C18: runoff_onset is true exactly when some step of the storm had
\* f_capacity <= the rainfall rate; saturation_time_hr is then the time of
\* the first such step (to a tenth of an hour); and runoff_onset is true
\* iff saturation_time_hr is a number.
C18_OnsetReported ==
    ga_pc = "done" =>
        LET wet == {n \in DOMAIN ga_capacity :
                       ga_capacity[n] <= ga_params.rainfall_rate}
            first == CHOOSE n \in wet : \A m \in wet : n <= m
        IN  /\ result.runoff_onset <=> wet # {}
            /\ wet # {} =>
                  result.saturation_time_hr
                      = Num(ToFixed(((first - 1) * GA_DT * SC) \div 3600, 1))
            /\ result.runoff_onset <=> result.saturation_time_hr # Null

-----------------------------------------------------------------------------
(* foundationSafetyCheck called on its own                                 *)

CallFoundationSafetyCheck(distanceFromCrest, slopeHeight) ==
    /\ op' = "foundationSafetyCheck"
    /\ args' = [slopeAngle |-> 35000, distanceFromCrest |-> distanceFromCrest,
                slopeHeight |-> slopeHeight]
    /\ result' = foundationSafetyCheck(35000, distanceFromCrest, slopeHeight)
    /\ UNCHANGED <<prev, loopVars>>

FoundationNext ==
    op = "none" /\ \E k \in (-6)..40, slopeHeight \in {0, 5, 10, 30} :
                      CallFoundationSafetyCheck(k * (SC \div 2), slopeHeight * SC)

SpecFoundation == AnalysisInit /\ [][FoundationNext]_vars

\* C20: the bearingCapacityReduction of foundationSafetyCheck lies in
\* [0, 100] for every distance from the crest and every slope height.
C20_ReductionInRange ==
    op = "foundationSafetyCheck" =>
        /\ result.bearingCapacityReduction >= 0
        /\ result.bearingCapacityReduction <= 100 * SC

-----------------------------------------------------------------------------
(* classifyRisk on analysis results of which some sub-results are missing  *)

\* The sub-results calculateConfidence looks for, besides the vegetation.
Checklist == {"infiniteSlope", "bishop", "monteCarlo", "rainfallThreshold",
              "foundation", "sensitivity", "infiltration"}

\* An analysis result that holds the sub-results of have.
PartialAnalysis(have, live) ==
    [compositeFoS |-> 110000,
     infiniteSlope |-> [fos |-> IF "infiniteSlope" \in have THEN 110000 ELSE 0],
     bishop |-> [converged |-> "bishop" \in have],
     monteCarlo |-> [iterations |-> IF "monteCarlo" \in have THEN 1000 ELSE 0],
     rainfallThreshold |->
         [level |-> 1, exceedance_pct_regional |-> 80 * SC,
          status |-> IF "rainfallThreshold" \in have
                     THEN "CAUTION - Approaching Regional Threshold" ELSE ""],
     vegetation |-> [vegetationPct |-> 0],
     foundation |-> IF "foundation" \in have
                    THEN [isSetbackSafe |-> TRUE, actualSetback |-> 20 * SC,
                          effectiveSetback |-> 3 * SC]
                    ELSE Null,
     sensitivity |-> [base_fos |-> IF "sensitivity" \in have THEN 110000 ELSE 0],
     infiltration |->
         [cumulative_infiltration_mm |->
              IF "infiltration" \in have THEN 630000 ELSE 0],
     riskModifier |-> 0,
     fieldObservations |-> [cracks |-> FALSE, seepage |-> FALSE,
                            pastLandslides |-> FALSE, construction |-> FALSE],
     slopeAngle |-> 50000,
     effectiveSaturation |-> 0,
     liveEarthquakes |-> IF live THEN [totalEvents |-> 80,
                                       maxMagnitude |-> 650000,
                                       nearestDistance |-> 20 * SC]
                         ELSE Null,
     weatherSeverity |-> IF live THEN 100 * SC ELSE 0]

ConfidenceNext ==
    \/ op = "none" /\ \E have \in SUBSET Checklist, live \in BOOLEAN :
                         Classify(PartialAnalysis(have, live))
    \/ op = "none" /\ \E have \in SUBSET Checklist, live \in BOOLEAN :
                         ClassifyLegacy(PartialAnalysis(have, live))

SpecConfidence == RiskInit /\ [][ConfidenceNext]_vars

\* C21: the confidence of a risk assessment carries a level, VERY LOW below
\* 40% of the checklist, LOW from 40%, MODERATE from 60% and HIGH from 80%,
\* with and without live signals.
C21_ConfidenceLevel ==
    op \in {"classifyRisk", "classifyRiskLegacy"} =>
        /\ "level" \in DOMAIN result.confidence
        /\ LET pct == calculateConfidence(args).percentage
           IN  result.confidence.level =
                   IF pct >= 80 THEN "HIGH"
                   ELSE IF pct >= 60 THEN "MODERATE"
                   ELSE IF pct >= 40 THEN "LOW"
                   ELSE "VERY LOW"

-----------------------------------------------------------------------------
(* classifyRisk, recommendMitigation and getOutcomeAnalysis on objects that *)
(* stay in memory from call to call: args is the memory after the last     *)
(* call, prev the memory before it                                         *)

\* The measure of MITIGATION_DB that carries a name.
MeasureKey(name) ==
    CHOOSE k \in DOMAIN MITIGATION_DB : MITIGATION_DB[k].name = name

\* The upgrade written to the measure passed in, not to the entry found.
addRecommendationInPlace_OnMeasure(mem, timeframe, key, priority, reason) ==
    LET measure == mem.db[key]
        bucket == mem.rec[timeframe]
        found == {i \in DOMAIN bucket : bucket[i].name = measure.name}
    IN  IF found # {}
        THEN LET i == CHOOSE j \in found : \A k \in found : j <= k
             IN  IF priorityLevel(priority) > priorityLevel(bucket[i].priority)
                 THEN [mem EXCEPT !.db[key] =
                          [name |-> measure.name,
                           riskReduction |-> measure.riskReduction,
                           category |-> measure.category,
                           priority |-> priority, reason |-> reason]]
                 ELSE mem
        ELSE [mem EXCEPT !.rec[timeframe] =
                  Append(@, [name |-> measure.name,
                             riskReduction |-> measure.riskReduction,
                             priority |-> priority, reason |-> reason])]

\* The writes of addRecommendation on a memory of the catalog db and the
\* recommendations rec being built: the entry pushed is a new object that
\* takes the fields of the measure, the upgrade is written to the entry.
addRecommendationInPlace(mem, timeframe, key, priority, reason) ==
    LET measure == mem.db[key]
        bucket == mem.rec[timeframe]
        found == {i \in DOMAIN bucket : bucket[i].name = measure.name}
    IN  IF found # {}
        THEN LET i == CHOOSE j \in found : \A k \in found : j <= k
             IN  IF priorityLevel(priority) > priorityLevel(bucket[i].priority)
                 THEN [mem EXCEPT !.rec[timeframe][i].priority = priority,
                                  !.rec[timeframe][i].reason = reason]
                 ELSE mem
        ELSE [mem EXCEPT !.rec[timeframe] =
                  Append(@, [name |-> measure.name,
                             riskReduction |-> measure.riskReduction,
                             priority |-> priority, reason |-> reason])]

\* The memory after the first n rules.
RECURSIVE ApplyRulesInPlace(_, _, _)
ApplyRulesInPlace(mem, rules, n) ==
    IF n = 0 THEN mem
    ELSE LET m == ApplyRulesInPlace(mem, rules, n - 1)
             r == rules[n]
         IN  IF r.when
             THEN addRecommendationInPlace(m, r.timeframe,
                                           MeasureKey(r.measure.name),
                                           r.priority, r.reason)
             ELSE m

\* recommendMitigation on the catalog in memory: the catalog after the call
\* and the recommendations returned.
recommendMitigationInPlace(db, riskAssessment, analysisResults, doubleAbove) ==
    LET rules == MitigationRules(riskAssessment, analysisResults)
        code == riskAssessment.classification.code
        built == ApplyRulesInPlace([db |-> db, rec |-> EmptyRecommendations],
                                   rules, Len(rules))
        monitored ==
            [built.rec EXCEPT !.monitoring =
                generateMonitoringPlan(IF code = 0 THEN 3 ELSE code,
                                       analysisResults.slopeAngle,
                                       analysisResults.effectiveSaturation)]
        rec == calculateAggregates(monitored, doubleAbove)
    IN  [db |-> built.db,
         rec |-> [rec EXCEPT !.priorityOrder =
                     WithTimeframe(rec.immediate, "Immediate (0-30 days)")
                     \o WithTimeframe(rec.shortTerm, "Short-Term (1-6 months)")
                     \o WithTimeframe(rec.longTerm, "Long-Term (6-24 months)")]]

FrameAnalyses ==
    {ar \in AnalysisResults :
        /\ ar.compositeFoS \in {30000, 110000, 250000}
        /\ ar.rainfallThreshold.level = 1
        /\ ar.vegetation.vegetationPct = 0
        /\ ar.foundation # Null
        /\ ar.riskModifier = 0
        /\ ar.slopeAngle = 50000
        /\ ar.effectiveSaturation = 100 * SC
        /\ ar.liveEarthquakes = Null
        /\ ar.weatherSeverity = 0}

FrameTimeframes == {"immediate", "shortTerm"}
FrameMeasures == {"gabion_walls", "catch_drains"}
FramePriorities == {"MEDIUM", "CRITICAL"}

FrameClassifyRisk ==
    /\ op' = "classifyRisk"
    /\ result' = classifyRisk(args.analysisResults)
    /\ args' = [args EXCEPT !.riskAssessment = result']
    /\ prev' = args
    /\ UNCHANGED loopVars

FrameRecommendMitigation(doubleAbove) ==
    /\ args.riskAssessment # Null
    /\ op' = "recommendMitigation"
    /\ LET out == recommendMitigationInPlace(args.db, args.riskAssessment,
                                             args.analysisResults, doubleAbove)
       IN  /\ result' = out.rec
           /\ args' = [args EXCEPT !.db = out.db, !.recommendations = out.rec]
    /\ prev' = args
    /\ UNCHANGED loopVars

\* One more addRecommendation on the recommendations in memory.
FrameAddRecommendation(timeframe, key, priority) ==
    /\ args.recommendations # Null
    /\ op' = "addRecommendation"
    /\ LET out == addRecommendationInPlace(
                      [db |-> args.db, rec |-> args.recommendations],
                      timeframe, key, priority, "added")
       IN  /\ result' = out.rec
           /\ args' = [args EXCEPT !.db = out.db, !.recommendations = out.rec]
    /\ prev' = args
    /\ UNCHANGED loopVars

FrameGetOutcomeAnalysis ==
    /\ args.recommendations # Null
    /\ op' = "getOutcomeAnalysis"
    /\ result' = getOutcomeAnalysis(args.analysisResults.compositeFoS,
                                    args.recommendations)
    /\ args' = args
    /\ prev' = args
    /\ UNCHANGED loopVars

FrameInit ==
    /\ op = "none"
    /\ \E ar \in FrameAnalyses :
          args = [db |-> MITIGATION_DB, soil |-> SOIL_DATABASE,
                  analysisResults |-> ar, riskAssessment |-> Null,
                  recommendations |-> Null]
    /\ result = Null
    /\ prev = Null
    /\ LoopsIdle

FrameNext ==
    \/ FrameClassifyRisk
    \/ \E doubleAbove \in BOOLEAN : FrameRecommendMitigation(doubleAbove)
    \/ \E timeframe \in FrameTimeframes, key \in FrameMeasures,
          priority \in FramePriorities :
          FrameAddRecommendation(timeframe, key, priority)
    \/ FrameGetOutcomeAnalysis

SpecFrame == FrameInit /\ [][FrameNext]_vars

-----------------------------------------------------------------------------
(* Application: coordinates and live data.  args is the state object of    *)
(* app.js (lat stands for the pair state.lat, state.lon; the input fields  *)
(* follow it), prev the asynchronous work pending, result the site data of *)
(* the last analysis.                                                      *)

MaxFetches == 2

\* Coordinates 1 is the location of the initial state.
Coordinates == 1..3

\* What fetchAllLiveData(lat, lon) resolves with.
LiveDataAt(coords) == [coords |-> coords]

\* The callback of initMap: a click on the map or a drag of the marker.
navigateTo(coords) ==
    /\ op' = "navigateTo"
    /\ args' = [args EXCEPT !.lat = coords]
    /\ UNCHANGED <<result, prev, loopVars>>

\* fetchLiveData up to its await; the coordinates are those of the input
\* fields.
StartFetchLiveData(state, pending) ==
    [pending EXCEPT !.fetches =
        Append(@, [coords |-> state.lat, then |-> "fetchLiveData"])]

goToCoords(coords) ==
    /\ Len(prev.fetches) < MaxFetches
    /\ op' = "goToCoords"
    /\ args' = [args EXCEPT !.lat = coords, !.liveDataFetched = FALSE]
    /\ prev' = StartFetchLiveData(args', prev)
    /\ UNCHANGED <<result, loopVars>>

fetchLiveData ==
    /\ Len(prev.fetches) < MaxFetches
    /\ op' = "fetchLiveData"
    /\ prev' = StartFetchLiveData(args, prev)
    /\ UNCHANGED <<args, result, loopVars>>

\* The button handler: fetch first when no live data was fetched yet,
\* otherwise schedule performAnalysis.
RequestAnalysis ==
    /\ prev.scheduled + prev.running = 0
    /\ args.liveDataFetched \/ Len(prev.fetches) < MaxFetches
    /\ op' = "runAnalysis"
    /\ prev' = IF ~args.liveDataFetched
               THEN [prev EXCEPT !.fetches =
                        Append(@, [coords |-> args.lat, then |-> "runAnalysis"])]
               ELSE [prev EXCEPT !.scheduled = @ + 1]
    /\ UNCHANGED <<args, result, loopVars>>

\* The i-th fetch in flight resolves: the continuation of fetchLiveData or
\* the then-callback of runAnalysis stores the data; the latter calls
\* performAnalysis, which sets its timer.
FetchSettles(i) ==
    /\ i \in DOMAIN prev.fetches
    /\ op' = "fetchAllLiveData"
    /\ args' = [args EXCEPT !.liveData = LiveDataAt(prev.fetches[i].coords),
                            !.liveDataFetched = TRUE]
    /\ prev' = [prev EXCEPT
                   !.fetches = [j \in 1..(Len(@) - 1) |->
                                   IF j < i THEN @[j] ELSE @[j + 1]],
                   !.running = IF prev.fetches[i].then = "runAnalysis"
                               THEN @ + 1 ELSE @]
    /\ UNCHANGED <<result, loopVars>>

\* The 100 ms timer of runAnalysis: performAnalysis sets its own timer.
PerformAnalysisScheduled ==
    /\ prev.scheduled > 0
    /\ op' = "setTimeout"
    /\ prev' = [prev EXCEPT !.scheduled = @ - 1, !.running = @ + 1]
    /\ UNCHANGED <<args, result, loopVars>>

\* The timer callback of performAnalysis: collectSiteData and the injection
\* of state.liveData.
PerformAnalysisRuns ==
    /\ prev.running > 0
    /\ op' = "performAnalysis"
    /\ result' = [location |-> args.lat, liveData |-> args.liveData]
    /\ prev' = [prev EXCEPT !.running = @ - 1]
    /\ UNCHANGED <<args, loopVars>>

CoordsInit ==
    /\ op = "none"
    /\ args = [lat |-> 1, liveData |-> Null, liveDataFetched |-> FALSE]
    /\ prev = [fetches |-> <<>>, scheduled |-> 0, running |-> 0]
    /\ result = Null
    /\ LoopsIdle

CoordsNext ==
    \/ \E coords \in Coordinates : navigateTo(coords)
    \/ \E coords \in Coordinates : goToCoords(coords)
    \/ fetchLiveData
    \/ RequestAnalysis
    \/ \E i \in 1..MaxFetches : FetchSettles(i)
    \/ PerformAnalysisScheduled
    \/ PerformAnalysisRuns

SpecCoords == CoordsInit /\ [][CoordsNext]_vars

\* C24: the live data that performAnalysis injects into an analysis were
\* fetched for the coordinates being analysed.
C24_LiveDataOfCoordinates ==
    (op = "performAnalysis" /\ result.liveData # Null) =>
        result.liveData.coords = result.location

-----------------------------------------------------------------------------
(* The slope range of each measure of MITIGATION_DB                        *)

SlopeRange(minSlope, maxSlope) == [minSlope |-> minSlope, maxSlope |-> maxSlope]

\* applicability.minSlope and applicability.maxSlope, in degrees.
Applicability ==
    [surface_drains |-> SlopeRange(10, 45),
     horizontal_drains |-> SlopeRange(20, 60),
     toe_drains |-> SlopeRange(15, 50),
     catch_drains |-> SlopeRange(25, 55),
     gabion_walls |-> SlopeRange(25, 55),
     rcc_walls |-> SlopeRange(30, 70),
     soil_nailing |-> SlopeRange(35, 75),
     rock_bolting |-> SlopeRange(40, 85),
     shotcrete |-> SlopeRange(30, 80),
     vetiver_grass |-> SlopeRange(10, 45),
     bamboo_crib |-> SlopeRange(15, 40),
     coir_geotextile |-> SlopeRange(10, 50),
     native_species |-> SlopeRange(10, 40),
     cut_slope_correction |-> SlopeRange(30, 70),
     setback_planning |-> SlopeRange(15, 90),
     relocation |-> SlopeRange(0, 90)]

\* C25: the slope angle of the site lies within the applicability range of
\* every measure that recommendMitigation recommends.
C25_MeasuresApplicable ==
    op = "recommendMitigation" =>
        LET allRecs == AllRecs(result)
        IN  \A i \in DOMAIN allRecs :
               LET range == Applicability[MeasureKey(allRecs[i].name)]
               IN  /\ range.minSlope * 1000 <= args[2].slopeAngle
                   /\ args[2].slopeAngle <= range.maxSlope * 1000

-----------------------------------------------------------------------------
(* runComprehensiveAnalysis with its sensitivity analysis: prev holds the  *)
(* arguments of the calls of monteCarloSimulation and sensitivityAnalysis  *)

SensitivityKeys ==
    <<"cohesion", "frictionAngle", "slopeAngle", "unitWeight", "saturation">>

\* baseParams with one parameter at pct per cent of its value.
Varied(baseParams, key, pct) ==
    LET value == MulDiv(baseParams[key], pct, 100)
    IN  [baseParams EXCEPT ![key] = IF key = "saturation" /\ pct > 100
                                    THEN Min(100 * SC, value) ELSE value]

sensitivityAnalysis(baseParams) ==
    LET base_fos == infiniteSlope(baseParams).fos
        Swing(key) ==
            Abs(infiniteSlope(Varied(baseParams, key, 110)).fos
                - infiniteSlope(Varied(baseParams, key, 90)).fos)
        results ==
            [key \in {SensitivityKeys[i] : i \in DOMAIN SensitivityKeys} |->
                [baseValue |-> baseParams[key],
                 fos_high |-> infiniteSlope(Varied(baseParams, key, 110)).fos,
                 fos_low |-> infiniteSlope(Varied(baseParams, key, 90)).fos,
                 swing |-> ToFixed(Swing(key), 4),
                 sensitivity_pct |->
                     FToFixed(FDiv(Num(Swing(key) * 100), Num(base_fos)), 1)]]
        first == CHOOSE i \in DOMAIN SensitivityKeys :
                    /\ \A j \in DOMAIN SensitivityKeys :
                          results[SensitivityKeys[j]].swing
                              <= results[SensitivityKeys[i]].swing
                    /\ \A j \in 1..(i - 1) :
                          results[SensitivityKeys[j]].swing
                              < results[SensitivityKeys[i]].swing
    IN  [base_fos |-> ToFixed(base_fos, 4), results |-> results,
         mostSensitive |-> SensitivityKeys[first]]

\* The parameter object that runComprehensiveAnalysis passes to
\* monteCarloSimulation and to sensitivityAnalysis.
StochasticParams(siteData) ==
    LET soil == SoilLookup(siteData.soilType)
    IN  SlopeParams(soil.cohesion, soil.friction, siteData.slopeAngle,
                    soil.unitWeight, DEFAULT_DEPTH,
                    Min(100 * SC,
                        Mul(siteData.saturation,
                            drainageSatModifier(siteData.drainageCondition))))

\* The cohesion infiniteSlope works with for a parameter object.
EffectiveCohesion(p) ==
    ToFixed(Mul(p.cohesion, SC - p.crackReduction) + p.rootCohesion
            + p.structuralAdd, 2)

AnalyseWithSensitivity(siteData) ==
    /\ op' = "runComprehensiveAnalysis"
    /\ args' = siteData
    /\ prev' = [monteCarloSimulation |-> StochasticParams(siteData),
                sensitivityAnalysis |-> StochasticParams(siteData)]
    /\ result' = runComprehensiveAnalysis(siteData)
                 @@ [sensitivity |->
                         sensitivityAnalysis(StochasticParams(siteData))]
    /\ UNCHANGED loopVars

SensitivityNext ==
    op = "none" /\
    \E soilType \in AnalysisSoilTypes, slopeAngle \in AnalysisAngles,
       saturation \in Saturations, ctx \in SiteContexts :
       AnalyseWithSensitivity(SiteData(soilType, slopeAngle, saturation, ctx))

SpecSensitivity == AnalysisInit /\ [][SensitivityNext]_vars

\* C26: within one analysis result the sensitivity analysis and the Monte
\* Carlo simulation work with the effective cohesion of the infinite-slope
\* result, and sensitivity.base_fos equals infiniteSlope.fos.
C26_SameEffectiveCohesion ==
    op = "runComprehensiveAnalysis" =>
        /\ result.sensitivity.base_fos = result.infiniteSlope.fos
        /\ EffectiveCohesion(prev.sensitivityAnalysis)
               = result.infiniteSlope.c_eff
        /\ EffectiveCohesion(prev.monteCarloSimulation)
               = result.infiniteSlope.c_eff

=============================================================================
